---- MODULE Spec2Model ----
(***************************************************************************)
(* luddcam: the capture controller (luddcam_capture.Capture), its worker   *)
(* thread (Capture.run), the UI thread that drives it, the camera and the  *)
(* shared view, as a state machine.                                        *)
(*                                                                         *)
(* Encoding of Python values:                                              *)
(*   Stage / Mode enum members    -> their names as strings                *)
(*   None for a stage or a mode   -> "NONE"                                *)
(*   interval_idx None            -> << >>, (index, sub) -> <<index, sub>> *)
(*   capture_slot None            -> NoSlot (-1)                           *)
(*   view.out / view.saved        -> NoneV (-1), FalseV (0), IMG_n -> n    *)
(*   exposures                    -> whole seconds                         *)
(*   a SolverHints field None     -> NoHint (-99)                          *)
(*   align None                   -> << >>, (pos, None) -> <<pos, << >> >>  *)
(*   (ra, dec)                    -> <<ra, dec>>, whole degrees            *)
(***************************************************************************)
EXTENDS Integers, Sequences, FiniteSets, TLC

\* ---------------------------------------------------------------- bounds
MaxExposures == 2     \* capture_start calls in one behaviour
MaxCalls     == 3     \* set_stage calls of the UI thread after start()
MaxModes     == 1     \* set_mode calls of the UI thread
MaxFaults    == 1     \* camera failures and write errors in one behaviour
MaxSteps     == 2     \* steps of an interval plan
MaxFrames    == 2     \* frames of one step of an interval plan

\* ------------------------------------------------------------- constants
LiveCap == 1          \* the ceiling of a LIVE exposure, seconds

Stages == {"LIVE", "CAPTURE", "PAUSE", "STOP"}
Modes  == {"SINGLE", "REPEAT", "INTERVALS"}

NoneV  == -1
FalseV == 0
NoSlot == -1
NoHint == -99

\* plate_solve solves with more than this many sources (luddcam_capture),
\* or with at least this many (luddcam_images)
MinSources == 10

ExposureOptions == {1, 2}
Slots == {0, 1}

\* an interval of the plan: INTERVAL := {exposure, frames, slot}
PlanSteps == [exposure : ExposureOptions, frames : 1..MaxFrames, slot : Slots]

\* the step k of the plans the main specification starts from: the steps
\* alternate between a long and a short exposure, between the slots, and
\* between f and its mirror image for the frame count
StepOf(k, f) == [exposure |-> IF k % 2 = 1 THEN 2 ELSE 1,
                 frames   |-> IF k % 2 = 1 THEN f ELSE MaxFrames + 1 - f,
                 slot     |-> (k - 1) % 2]

Plans == {<< >>} \cup {[k \in 1..n |-> StepOf(k, f)] : n \in 1..MaxSteps, f \in 1..MaxFrames}

\* one settings file: the plan, the mode Menu.__init__ is given, the drive;
\* REPEAT is run without a filter wheel, the other modes with one whose
\* default slot is 1; without a drive the exposure is 1 second, else 2
Setting(p, m, d) ==
    [intervals |-> p, mode |-> m, output_dir |-> d,
     wheel |-> m # "REPEAT", wheel_default |-> IF m # "REPEAT" THEN 1 ELSE NoSlot,
     exposure |-> IF d THEN 2 ELSE 1]

\* Menu.__init__ that passes its mode on
ModeAsGiven(given, plan) == given

\* Menu.__init__: `if not mode or (mode is Mode.INTERVALS and not
\* camera_settings.intervals): mode = Mode.SINGLE`; no mode is "NONE"
FallbackMode(given, plan) ==
    IF given = "NONE" \/ (given = "INTERVALS" /\ plan = << >>) THEN "SINGLE" ELSE given

\* mk_secondary_action_menu: the items of the mode selector for a plan
Offered(plan) == {"SINGLE", "REPEAT"} \cup (IF plan # << >> THEN {"INTERVALS"} ELSE {})

\* the settings the main specification starts from
Settings ==
    \* without a plan: whatever mode Menu.__init__ is given, with and without
    \* a drive
    {Setting(<< >>, FallbackMode(m, << >>), d) :
        m \in {"NONE", "SINGLE", "REPEAT", "INTERVALS"}, d \in BOOLEAN}
    \* with a plan: INTERVALS
    \cup {Setting(p, "INTERVALS", TRUE) : p \in Plans \ {<< >>}}
    \* with a plan that is not selected at the start
    \cup {Setting(p, "SINGLE", TRUE) : p \in {q \in Plans : Len(q) = 1 /\ q[1].frames = 1}}

VARIABLES
    \* configuration, fixed at construction
    output_dir,     \* Capture.output_dir is set (truthy)
    intervals,      \* camera_settings.intervals
    exposure,       \* camera_settings.exposure
    wheel,          \* a filter wheel is present
    wheel_default,  \* wheel_settings.default
    \* Capture fields guarded by Capture.lock
    mode, stage, interval_idx, image_count,
    \* Capture.seq, worker only
    seq,
    \* the locals of Capture.run, and its position
    run,
    \* the UI thread: Menu's fields and its position inside the Capture API
    ui,
    \* the camera: is an exposure in flight; the slot the wheel is at
    cam,
    \* the view's shared fields
    view,
    \* files IMG_n on disk: those Capture.__init__ found, and of this
    \* session those written in full, fsynced, and those whose
    \* FitsWriter.run raised; history: the numbers handed out (used)
    files,
    \* history: the exposure started last, and the events of the requests
    shot, req,
    \* View.align and View.hints (a SolverHints)
    align, hints,
    \* history: the last call of toggle_align or plate_solve: the alignment
    \* before it (was); for plate_solve the number of sources, the solve_field
    \* calls, the flag returned and whether the hints were left alone (kept);
    \* for toggle_align the position it read (pos), how many calls with a
    \* position were made in a row starting from no alignment (probes) and
    \* the position of the first of them (origin)
    solve,
    \* one call of downscale: its arguments, the shape of the image it is
    \* working on and its position
    scale,
    \* the locks: who holds Capture.lock and View.lock, the method each
    \* thread is in and the step of it the thread makes next, and whether
    \* the worker has left its loop
    crit,
    \* the hints between plate_solve (writer: the assignment it makes next, of
    \* the bounds b) and mk_metadata (reader: the field it reads next; read:
    \* what it has read for the frame); history: the hints as each solve
    \* left them (solved), the number of solves and of frames
    plate,
    \* Menu: its fields screensaver, zoom and menu (open), its position in
    \* update with the stage update read and the events still to handle;
    \* whether self.capture is set, whether the attribute screensaver was
    \* assigned, whether cancel stopped a controller and the exception it
    \* left with; history: the event handled last (last)
    menu,
    \* the view between its callers, call by call: who holds View.lock, the
    \* call each thread is in and the step of it the thread makes next, the
    \* snapshot render has read so far (snap) and what the surface shows;
    \* the path FitsWriter has still to report (pending); history: the number
    \* of frames handed over (n), the out each was given with (given), the
    \* paths save was called with (saves) and whether an update completed
    \* between a snapshot and its drawing (late)
    draw,
    \* the e-paper display, Waveshare: its fields last (in ticks), hinted and
    \* buf (the surface it shows, 0 for None) and the clock (now); history:
    \* whether sleep was called last (asleep), what the last sync did (cmd),
    \* whether a display command was issued while asleep (dark), the tick of
    \* the last display command (shown_at) and the shortest distance between
    \* two of them (gap)
    paper,
    \* playback, Menu: its fields cached, current and zoom, the number of
    \* files of the directory and the file on the surface (shown, 0 for
    \* none); history: the last update that moved (last)
    play

vars == <<output_dir, intervals, exposure, wheel, wheel_default, mode, stage, interval_idx,
          image_count, seq, run, ui, cam, view, files, shot, req, align, hints, solve,
          scale, crit, plate, menu, draw, paper, play>>

\* the plate solving state of the view
solving == <<align, hints, solve>>

config == <<output_dir, intervals, exposure, wheel, wheel_default>>

\* the calls of the helpers that are followed on their own
aside == <<scale, crit, plate, menu, draw, paper, play>>

\* ------------------------------------------------------------ the view
\* View.set_data; the metadata of frame n is written n, None 0
set_data(v, out, frame, msg) ==
    [v EXCEPT !.out = out, !.frame = frame, !.msg = msg, !.meta = frame, !.stale = TRUE]

\* View.message
message(v, msg) == set_data(v, NoneV, 0, msg)

\* View.pause
pause(v, value) == [v EXCEPT !.is_paused = value, !.stale = TRUE]

\* View.save
save(v, out) == [v EXCEPT !.saved = out, !.stale = TRUE]

\* View.toggle_zoom
toggle_zoom(v) == [v EXCEPT !.stale = TRUE, !.zoom = ~@]

\* View.disable_zoom
disable_zoom(v) == [v EXCEPT !.stale = @ \/ v.zoom, !.zoom = FALSE]

\* View.set_plate_solve
set_plate_solve(v, val) == [v EXCEPT !.plate_solve = val]

\* ------------------------------------------------ decisions of Capture.run
\* NextIdx with `sub > frames` for `sub >= frames`
NextIdxOffByOne(ivs, idx) ==
    LET index0 == IF Len(idx) = 0 THEN 0 ELSE idx[1]
        sub0   == IF Len(idx) = 0 THEN 0 ELSE idx[2]
        sub1   == sub0 + 1
    IN  IF sub1 > ivs[index0 + 1].frames
        THEN IF index0 + 1 >= Len(ivs) THEN <<0, 0>> ELSE <<index0 + 1, 0>>
        ELSE <<index0, sub1>>

\* the cursor of the next INTERVALS exposure, from the committed cursor
NextIdx(ivs, idx) ==
    LET index0 == IF Len(idx) = 0 THEN 0 ELSE idx[1]
        sub0   == IF Len(idx) = 0 THEN 0 ELSE idx[2]
        sub1   == sub0 + 1
    IN  IF sub1 >= ivs[index0 + 1].frames
        THEN IF index0 + 1 >= Len(ivs) THEN <<0, 0>> ELSE <<index0 + 1, 0>>
        ELSE <<index0, sub1>>

\* StartCursor reading the worker's local cursor of the exposure started last
StartFromLocal(snapshot_idx, capture_idx) == capture_idx

\* the cursor the next exposure is computed from: the snapshot of
\* self.interval_idx, not the local of the exposure started last
StartCursor(snapshot_idx, capture_idx) == snapshot_idx

\* LiveExposure without the ceiling
Uncapped(stg, exp) == exp

\* LIVE exposures are limited
LiveExposure(stg, exp) == IF stg = "LIVE" /\ exp > LiveCap THEN LiveCap ELSE exp

\* AbortOnPause that leaves the exposure running
NeverAbortOnPause(stg, capturing) == FALSE

\* stage PAUSE with an exposure active: abort it
AbortOnPause(stg, capturing) == stg = "PAUSE" /\ capturing

\* AbortOnLive that leaves the exposure running
NeverAbortOnLive(stg, capturing, cstage) == FALSE

\* stage LIVE with an exposure started in CAPTURE active: abort it
AbortOnLive(stg, capturing, cstage) == stg = "LIVE" /\ capturing /\ cstage = "CAPTURE"

\* capturing left set after a failure
StillCapturing == TRUE

\* the value of capturing after capture_wait reported a failure
CapturingAfterFailure == FALSE

\* Persists that forgets the stage the exposure was started in
PersistsAnyStage(cstage, dir) == dir

\* the frame of a completed exposure goes to disk
Persists(cstage, dir) == cstage # "LIVE" /\ dir

\* SinglePauses that never pauses
NeverSelfPause(capture_mode) == FALSE

\* a persisted frame of SINGLE mode is followed by self.set_stage(PAUSE)
SinglePauses(capture_mode) == capture_mode = "SINGLE"

\* WheelAtStart of a wheel that is moved after capture_start
WheelNotAwaited(before, after) == before

\* the slot the wheel is at when camera.capture_start is called, of the
\* slot it was at and the slot set_slot_and_wait was given: the call comes
\* first and returns once the wheel is there
WheelAtStart(before, after) == after

\* a join that does not wait
JoinReturnsAtOnce(pc) == TRUE

\* Thread.join returns once the thread has terminated
JoinReturns(pc) == pc \in {"done", "crashed"}

\* what camera.capture_wait may answer
WaitResults(exposing) == IF exposing THEN {"pending", "ready", "failed"} ELSE {"failed"}

\* a fault may still be injected
MayFail == req.faults < MaxFaults

\* ----------------------------------------------------------------- Init
\* history of the exposure started last: what capture_start was given (stage,
\* mode, idx, exposure, slot), the cursor an aborted or failed predecessor
\* had (owed), how it ended (fate), what the worker's snapshot saw while it
\* was in flight (seen), whether a pause was requested while it was in
\* flight (hit), the stage wanted when it completed (at), and what became
\* of its frame (shown, out, committed), and whether the worker's own
\* set_stage(PAUSE) after it is still the last set_stage (held), the slot
\* the wheel was at when capture_start was called (wheel_at) and the slot
\* of the FILTER entry of its metadata (filter)
NoShot == [id |-> 0, stage |-> "NONE", mode |-> "NONE", idx |-> << >>, exposure |-> 0,
           slot |-> NoSlot, owed |-> << >>, fate |-> "none", seen |-> "none",
           hit |-> FALSE, at |-> "NONE", shown |-> FALSE, out |-> 0,
           committed |-> FALSE, held |-> FALSE, wheel_at |-> NoSlot, filter |-> NoSlot]

\* SolverHints.__init__
SolverHints == [ra_center |-> NoHint, dec_center |-> NoHint, pixscale |-> NoHint,
                scale |-> NoHint, parity |-> NoHint, focal_length |-> NoHint]

\* View.__init__, the fields the worker and the UI thread share, and the
\* zoom
NoView == [out |-> NoneV, frame |-> 0, msg |-> "", meta |-> 0, stale |-> TRUE,
           is_paused |-> FALSE, saved |-> FalseV, zoom |-> FALSE, plate_solve |-> FALSE]

\* no call of toggle_align or plate_solve yet
NoSolve == [op |-> "none", was |-> << >>, sources |-> 0, calls |-> << >>,
            solved |-> "none", kept |-> TRUE, pos |-> << >>, probes |-> 0,
            origin |-> << >>]

\* View.__init__, the plate solving part
ViewConstructed ==
    /\ view = NoView
    /\ align = << >>
    /\ hints = SolverHints
    /\ solve = NoSolve

\* NextSeq that counts the images
NextSeqByCount(numbers) == Cardinality(numbers) + 1

\* self.seq = max(numbers) + 1 if numbers else 1
NextSeq(numbers) ==
    IF numbers = {} THEN 1 ELSE (CHOOSE n \in numbers : \A k \in numbers : k <= n) + 1

\* Capture.__init__ over a drive that holds the images IMG_n, n in dir, with
\* the worker not started and the camera idle
CaptureConstructedIn(dir) ==
    /\ stage = "STOP"
    /\ interval_idx = << >>
    /\ image_count = 0
    /\ seq = NextSeq(dir)
    /\ run = [pc |-> "new", capturing |-> FALSE, capture_mode |-> "NONE",
              capture_stage |-> "NONE", capture_exposure |-> 0,
              capture_slot |-> NoSlot, capture_interval_idx |-> << >>,
              mode |-> "NONE", stage |-> "NONE", interval_idx |-> << >>,
              image_count |-> 0, intervals_bound |-> FALSE,
              summary |-> "", out |-> 0]
    /\ ui = [pc |-> "idle", op |-> "none", arg |-> "NONE", stage |-> "NONE",
             capture |-> FALSE, menu |-> FALSE, calls |-> 0, modes |-> 0]
    /\ cam = [exposing |-> FALSE, slot |-> NoSlot]
    /\ files = [found |-> dir, used |-> {}, written |-> {}, synced |-> {}, failed |-> {}]
    /\ shot = NoShot
    /\ req = [stopping |-> FALSE, stop_inflight |-> FALSE, stops |-> 0,
              stop_returned |-> FALSE, owed |-> << >>, clean |-> FALSE,
              finished |-> 0, written |-> 0, faults |-> 0, credit |-> 0]

\* no call of downscale
NoScale == [pc |-> "none", impl |-> "capture", width |-> 0, height |-> 0, w |-> 0, h |-> 0,
            target_width |-> 0, target_height |-> 0, zoom |-> FALSE, bayer |-> "NONE",
            quality |-> FALSE, depth |-> 0]

Threads == {"ui", "worker"}
Locks == {"Capture", "View"}

\* the surface of a message, or of None
Text(msg) == [msg |-> msg, frame |-> 0, meta |-> 0, out |-> NoneV, zoom |-> FALSE,
              is_paused |-> FALSE, is_saved |-> FALSE]

\* no call of the view yet: the lock is free and the surface is empty
NoDraw == [lock |-> "none",
           at |-> [t \in Threads |-> [call |-> [name |-> "none", out |-> NoneV, frame |-> 0,
                                                msg |-> "", value |-> FALSE],
                                      i |-> 1]],
           snap |-> NoView, surface |-> Text(""), n |-> 0, given |-> << >>, pending |-> 0,
           saves |-> {}, late |-> FALSE]

\* time.monotonic() < float('inf') for every time
Forever == 1000

\* Waveshare.__init__: hinted = False and wake(), which sets last = -1
\* (seconds, two ticks each) and buf = None
NoPaper == [last |-> -2, hinted |-> FALSE, buf |-> 0, now |-> 0, asleep |-> FALSE,
            cmd |-> "none", dark |-> FALSE, shown_at |-> -Forever, gap |-> Forever]

\* playback Menu.__init__ and reset, over no directory
NoPlay == [directory |-> FALSE, count |-> 0, cached |-> FALSE, current |-> 0, zoom |-> FALSE,
           shown |-> 0, last |-> [direction |-> 0, presses |-> 0, from |-> 0, to |-> 0]]

\* no thread is inside a method and no lock is held
NoCrit == [held |-> [l \in Locks |-> "none"],
           at |-> [t \in Threads |-> [body |-> [name |-> "none", ops |-> << >>], i |-> 1]],
           ended |-> FALSE]

\* no solve yet and no metadata being made
NoPlate == [writer |-> 0, b |-> [ra_center |-> 0, dec_center |-> 0, pixscale |-> 0, parity |-> 0],
            pixel_size |-> 0, reader |-> 0, read |-> SolverHints, solved |-> {SolverHints},
            solves |-> 0, frames |-> 0]

\* no event handled yet
NoEvent == [event |-> "none", saver |-> FALSE, stage |-> "NONE", woke |-> FALSE,
            request |-> "NONE", before |-> "NONE", after |-> "NONE"]

\* Menu before its __init__
NoMenu == [pc |-> "new", screensaver |-> FALSE, zoom |-> FALSE, open |-> FALSE,
           stage |-> "NONE", events |-> << >>, last |-> NoEvent,
           capture |-> FALSE, has_screensaver |-> FALSE, stopped |-> FALSE,
           raised |-> "none"]

\* no helper is being followed
Quiet ==
    /\ scale = NoScale
    /\ crit = NoCrit
    /\ plate = NoPlate
    /\ menu = NoMenu
    /\ draw = NoDraw
    /\ paper = NoPaper
    /\ play = NoPlay

\* Capture.__init__ over an empty drive
CaptureConstructed == CaptureConstructedIn({})

\* Capture.__init__ and View.__init__
Constructed ==
    /\ CaptureConstructed
    /\ ViewConstructed
    /\ Quiet

Init ==
    /\ \E s \in Settings :
        /\ output_dir = s.output_dir
        /\ intervals = s.intervals
        /\ exposure = s.exposure
        /\ wheel = s.wheel
        /\ wheel_default = s.wheel_default
        /\ mode = s.mode
    /\ Constructed

\* ------------------------------------------------------- the UI thread
InFlight == cam.exposing /\ shot.fate = "inflight"

\* set_stage that takes every stage
RefusesNothing(stg, dir) == FALSE

\* `if stage is Stage.CAPTURE and not self.output_dir`: set_stage shows
\* "drive not selected" and returns
Refuses(stg, dir) == stg = "CAPTURE" /\ ~dir

\* the lock section of Capture.set_stage
SetStageLocked(stg) ==
    /\ stage' = stg
    /\ image_count' = 0

\* where set_stage goes after the lock section
AfterLock(stg) ==
    IF stg = "STOP" THEN "join"
    ELSE IF stg \in {"CAPTURE", "LIVE"} THEN "initialising"
    ELSE "pause"

\* the request events of a UI-thread call
Requested(stg) ==
    [req EXCEPT !.stopping = stg = "STOP",
                !.stop_inflight = stg = "STOP" /\ InFlight,
                !.stop_returned = FALSE,
                !.stops = 0,
                !.clean = /\ stg = "CAPTURE" /\ stage # "CAPTURE"
                          /\ mode = "INTERVALS" /\ interval_idx = << >>,
                !.finished = 0,
                !.written = 0,
                !.credit = IF stg = "CAPTURE" THEN @ + 1 ELSE @]

\* Capture.set_stage on the UI thread: the guard and the lock section;
\* op names the caller, which the end of the call returns to
set_stage(stg, op) ==
    /\ ui.calls < MaxCalls
    /\ IF Refuses(stg, output_dir)
       THEN /\ view' = message(view, "drive not selected")
            /\ ui' = [ui EXCEPT !.calls = @ + 1]
            /\ UNCHANGED <<stage, image_count, req, shot>>
       ELSE /\ SetStageLocked(stg)
            /\ ui' = [ui EXCEPT !.pc = AfterLock(stg), !.op = op, !.arg = stg,
                                !.calls = @ + 1]
            /\ req' = Requested(stg)
            /\ shot' = [shot EXCEPT !.hit = @ \/ (stg = "PAUSE" /\ InFlight),
                                     !.held = FALSE]
            /\ UNCHANGED view
    /\ UNCHANGED <<config, solving, aside, mode, interval_idx, seq, run, cam, files>>

\* Menu.__init__: Capture(...).start(), which is set_stage(LIVE) and then
\* Thread.start
Start ==
    /\ ui.pc = "idle"
    /\ run.pc = "new"
    /\ SetStageLocked("LIVE")
    /\ ui' = [ui EXCEPT !.pc = AfterLock("LIVE"), !.op = "start", !.arg = "LIVE",
                        !.capture = TRUE]
    /\ UNCHANGED <<config, solving, aside, mode, interval_idx, seq, run, cam, view, files, shot, req>>

\* Menu.update: stage = self.capture.get_stage(), before the events; ui.stage
\* is the stage the current update read, which its events are handled with
Update ==
    /\ ui.pc = "idle"
    /\ ui.capture
    /\ ~ui.menu
    /\ ui.stage # stage
    /\ ui' = [ui EXCEPT !.stage = stage]
    /\ UNCHANGED <<config, solving, aside, mode, stage, interval_idx, image_count, seq, run, cam,
                   view, files, shot, req>>

\* Menu.update, is_start: pause when the stage read was CAPTURE, capture
\* otherwise
PressStart ==
    /\ ui.pc = "idle"
    /\ ui.capture
    /\ ui.stage # "NONE"
    /\ set_stage(IF ui.stage = "CAPTURE" THEN "PAUSE" ELSE "CAPTURE", "update")

\* Menu.update, is_back: back to LIVE when the stage read was PAUSE, the
\* secondary menu when it was LIVE
PressBack ==
    /\ ui.pc = "idle"
    /\ ui.capture
    /\ \/ /\ ui.stage = "PAUSE"
          /\ set_stage("LIVE", "update")
       \/ /\ ui.stage = "LIVE"
          /\ ~ui.menu
          /\ ui' = [ui EXCEPT !.menu = TRUE]
          /\ UNCHANGED <<config, solving, aside, mode, stage, interval_idx, image_count, seq, run,
                         cam, view, files, shot, req>>

\* a later Menu.update with the secondary menu open: BACK closes it
CloseMenu ==
    /\ ui.pc = "idle"
    /\ ui.menu
    /\ ui' = [ui EXCEPT !.menu = FALSE, !.stage = "NONE"]
    /\ UNCHANGED <<config, solving, aside, mode, stage, interval_idx, image_count, seq, run, cam,
                   view, files, shot, req>>

\* Capture.set_mode, the lock section
set_mode(m) ==
    /\ ui.modes < MaxModes
    /\ mode' = m
    /\ interval_idx' = << >>
    /\ image_count' = 0
    /\ ui' = [ui EXCEPT !.pc = "selected", !.op = "set_mode", !.arg = m,
                        !.stage = "NONE", !.modes = @ + 1]
    /\ req' = [req EXCEPT !.owed = << >>, !.clean = FALSE, !.finished = 0, !.written = 0]
    /\ UNCHANGED <<config, solving, aside, stage, seq, run, cam, view, files, shot>>

\* the mode selector of the secondary menu changes: select_mode; the
\* selector offers INTERVALS only with a plan
SelectMode(m) ==
    /\ ui.pc = "idle"
    /\ ui.capture
    /\ ui.menu
    /\ m # mode
    /\ m \in Offered(intervals)
    /\ set_mode(m)

\* Capture.set_mode: view.message("<mode> selected")
Selected ==
    /\ ui.pc = "selected"
    /\ view' = message(view, ui.arg \o " selected")
    /\ ui' = [ui EXCEPT !.pc = "idle", !.op = "none", !.arg = "NONE"]
    /\ UNCHANGED <<config, solving, aside, mode, stage, interval_idx, image_count, seq, run, cam,
                   files, shot, req>>

\* Menu.cancel: set_stage(STOP), then self.capture = None
Cancel ==
    /\ ui.pc = "idle"
    /\ ui.capture
    /\ set_stage("STOP", "cancel")

\* the Capture API used after the controller was stopped
Direct ==
    /\ ui.pc = "idle"
    /\ ~ui.capture
    /\ run.pc # "new"
    /\ \/ \E stg \in Stages : set_stage(stg, "direct")
       \/ \E m \in Modes : (m = "INTERVALS" => intervals # << >>) /\ set_mode(m)
       \/ set_stage("LIVE", "start")

\* set_stage(STOP): thread.join()
Join ==
    /\ ui.pc = "join"
    /\ JoinReturns(run.pc)
    /\ ui' = [ui EXCEPT !.pc = "pause"]
    /\ req' = [req EXCEPT !.stopping = FALSE, !.stop_returned = TRUE]
    /\ UNCHANGED <<config, solving, aside, mode, stage, interval_idx, image_count, seq, run, cam,
                   view, files, shot>>

\* set_stage(CAPTURE or LIVE): view.message("initialising")
Initialising ==
    /\ ui.pc = "initialising"
    /\ view' = message(view, "initialising")
    /\ ui' = [ui EXCEPT !.pc = "pause"]
    /\ UNCHANGED <<config, solving, aside, mode, stage, interval_idx, image_count, seq, run, cam,
                   files, shot, req>>

\* the end of set_stage, view.pause(stage is PAUSE), and the return to the
\* caller
Pause ==
    /\ ui.pc = "pause"
    /\ view' = pause(view, ui.arg = "PAUSE")
    /\ ui' = [ui EXCEPT !.pc = IF ui.op = "start" THEN "thread_start" ELSE "idle",
                        !.stage = IF ui.op = "update" THEN @ ELSE "NONE",
                        !.op = "none", !.arg = "NONE",
                        !.capture = IF ui.op = "cancel" THEN FALSE ELSE @]
    /\ UNCHANGED <<config, solving, aside, mode, stage, interval_idx, image_count, seq, run, cam,
                   files, shot, req>>

\* Capture.start: self.thread.start(), which raises for a thread started
\* before
ThreadStart ==
    /\ ui.pc = "thread_start"
    /\ run' = IF run.pc = "new" THEN [run EXCEPT !.pc = "sleep"] ELSE run
    /\ ui' = [ui EXCEPT !.pc = "idle"]
    /\ UNCHANGED <<config, solving, aside, mode, stage, interval_idx, image_count, seq, cam, view,
                   files, shot, req>>

\* ------------------------------------------------ the worker, Capture.run
\* the exposure in flight is the INTERVALS frame of a capture that is due
\* after the committed cursor
Due ==
    /\ InFlight
    /\ shot.stage = "CAPTURE" /\ shot.mode = "INTERVALS"
    /\ mode = "INTERVALS" /\ shot.idx = NextIdx(intervals, interval_idx)

\* camera.capture_stop
capture_stop ==
    /\ cam' = [cam EXCEPT !.exposing = FALSE]
    /\ req' = [req EXCEPT !.stops = IF req.stopping THEN @ + 1 ELSE @,
                          !.owed = IF Due THEN shot.idx ELSE @]

\* the exposure in flight, if any, ends
Ended(sh, why) == IF InFlight THEN [sh EXCEPT !.fate = why] ELSE sh

\* what the snapshot means for the exposure in flight: a pause, or a
\* fall back to LIVE under an exposure started in CAPTURE
Seen(sh, stg, capturing, cstage) ==
    IF ~(capturing /\ InFlight) THEN sh
    ELSE IF stg = "PAUSE" THEN [sh EXCEPT !.seen = "pause"]
    ELSE IF stg = "LIVE" /\ cstage = "CAPTURE" THEN [sh EXCEPT !.seen = "live"]
    ELSE sh

\* the iteration has branched: its snapshot is dead until the next one, and
\* is reset so that states differing only in dead locals coincide
Branch(r, pc) == [r EXCEPT !.pc = pc, !.mode = "NONE", !.stage = "NONE",
                           !.interval_idx = << >>, !.image_count = 0]

\* top of the loop: the snapshot under the lock
Snapshot ==
    /\ run.pc = "sleep"
    /\ run' = [run EXCEPT !.pc = "decide", !.mode = mode, !.stage = stage,
                          !.interval_idx = interval_idx, !.image_count = image_count]
    /\ shot' = Seen(shot, stage, run.capturing, run.capture_stage)
    /\ UNCHANGED <<config, solving, aside, mode, stage, interval_idx, image_count, seq, ui, cam,
                   view, files, req>>

\* stage is STOP: capture_stop and leave the loop
Stop ==
    /\ run.pc = "decide"
    /\ run.stage = "STOP"
    /\ capture_stop
    /\ shot' = Ended(shot, "abort_stop")
    /\ run' = Branch(run, "done")
    /\ UNCHANGED <<config, solving, aside, mode, stage, interval_idx, image_count, seq, ui, view, files>>

\* stage is PAUSE: abort the active exposure, continue
Paused ==
    /\ run.pc = "decide"
    /\ run.stage = "PAUSE"
    /\ IF AbortOnPause(run.stage, run.capturing)
       THEN /\ run' = [Branch(run, "sleep") EXCEPT !.capturing = FALSE, !.capture_stage = "NONE"]
            /\ capture_stop
            /\ shot' = Ended(shot, "abort_pause")
       ELSE /\ run' = Branch(run, "sleep")
            /\ UNCHANGED <<cam, shot, req>>
    /\ UNCHANGED <<config, solving, aside, mode, stage, interval_idx, image_count, seq, ui, view, files>>

\* stage is LIVE and the active exposure was started in CAPTURE: abort it
LiveFallback ==
    /\ run.pc = "decide"
    /\ run.stage = "LIVE"
    /\ AbortOnLive(run.stage, run.capturing, run.capture_stage)
    /\ run' = [Branch(run, "sleep") EXCEPT !.capturing = FALSE, !.capture_stage = "NONE"]
    /\ capture_stop
    /\ shot' = Ended(shot, "abort_live")
    /\ UNCHANGED <<config, solving, aside, mode, stage, interval_idx, image_count, seq, ui, view, files>>

\* not capturing: choose exposure and slot, move the wheel, capture_start
Expose ==
    /\ run.pc = "decide"
    /\ run.stage \in {"LIVE", "CAPTURE"}
    /\ ~AbortOnLive(run.stage, run.capturing, run.capture_stage)
    /\ ~run.capturing
    /\ shot.id < MaxExposures
    /\ LET plan == run.mode = "INTERVALS"
           idx  == IF plan
                   THEN NextIdx(intervals, StartCursor(run.interval_idx, run.capture_interval_idx))
                   ELSE << >>
           exp  == IF plan THEN intervals[idx[1] + 1].exposure ELSE exposure
           slot == IF ~wheel THEN run.capture_slot
                   ELSE IF plan THEN intervals[idx[1] + 1].slot ELSE wheel_default
           capture_exposure == LiveExposure(run.stage, exp)
       IN  /\ run' = [Branch(run, IF run.image_count = 0 THEN "summary" ELSE "count")
                          EXCEPT !.capturing = TRUE,
                                 !.capture_stage = run.stage,
                                 !.capture_mode = run.mode,
                                 !.capture_interval_idx = idx,
                                 !.capture_exposure = capture_exposure,
                                 !.capture_slot = slot,
                                 !.intervals_bound = @ \/ plan]
           /\ shot' = [NoShot EXCEPT !.id = shot.id + 1, !.stage = run.stage,
                                     !.mode = run.mode, !.idx = idx,
                                     !.exposure = capture_exposure, !.slot = slot,
                                     !.wheel_at = IF wheel THEN WheelAtStart(cam.slot, slot)
                                                  ELSE cam.slot,
                                     !.owed = IF run.stage = "CAPTURE" /\ plan
                                              THEN req.owed ELSE << >>,
                                     !.fate = "inflight"]
           /\ cam' = [cam EXCEPT !.exposing = TRUE, !.slot = slot]
    /\ req' = [req EXCEPT !.owed = IF run.stage = "CAPTURE" /\ run.mode = "INTERVALS"
                                   THEN << >> ELSE @]
    /\ UNCHANGED <<config, solving, aside, mode, stage, interval_idx, image_count, seq, ui, view, files>>

\* image_count == 0: the summary, from self.stage and self.mode read without
\* the lock; the INTERVAL summary reads the local intervals, which is bound
\* only once an iteration has seen mode INTERVALS
Summary ==
    /\ run.pc = "summary"
    /\ LET text == IF stage = "LIVE" THEN "LIVE"
                   ELSE IF mode = "SINGLE" THEN "SINGLE"
                   ELSE IF mode = "REPEAT" THEN "REPEAT"
                   ELSE "INTERVAL"
       IN  run' = IF text = "INTERVAL" /\ ~run.intervals_bound
                  THEN [run EXCEPT !.pc = "crashed"]
                  ELSE [run EXCEPT !.pc = "summary_message", !.summary = text]
    /\ UNCHANGED <<config, solving, aside, mode, stage, interval_idx, image_count, seq, ui, cam,
                   view, files, shot, req>>

\* self.view.message(summary)
SummaryMessage ==
    /\ run.pc = "summary_message"
    /\ view' = message(view, run.summary)
    /\ run' = [run EXCEPT !.pc = "count", !.summary = ""]
    /\ UNCHANGED <<config, solving, aside, mode, stage, interval_idx, image_count, seq, ui, cam,
                   files, shot, req>>

\* with self.lock: self.image_count += 1
Count ==
    /\ run.pc = "count"
    /\ image_count' = image_count + 1
    /\ run' = [run EXCEPT !.pc = "sleep"]
    /\ UNCHANGED <<config, solving, aside, mode, stage, interval_idx, seq, ui, cam, view, files,
                   shot, req>>

\* an exposure is active: camera.capture_wait, and capture_finish when ready
Poll ==
    /\ run.pc = "decide"
    /\ run.stage \in {"LIVE", "CAPTURE"}
    /\ ~AbortOnLive(run.stage, run.capturing, run.capture_stage)
    /\ run.capturing
    /\ \E status \in WaitResults(cam.exposing) :
        /\ status = "failed" /\ cam.exposing => MayFail
        /\ CASE status = "pending" ->
                /\ run' = Branch(run, "sleep")
                /\ UNCHANGED <<cam, shot, req>>
          [] status = "failed" ->
                /\ run' = [Branch(run, "no_signal") EXCEPT !.capturing = CapturingAfterFailure]
                /\ cam' = [cam EXCEPT !.exposing = FALSE]
                /\ shot' = Ended(shot, "failed")
                /\ req' = [req EXCEPT !.clean = FALSE, !.finished = 0, !.written = 0,
                                      !.faults = IF cam.exposing THEN @ + 1 ELSE @,
                                      !.owed = IF Due THEN shot.idx ELSE @]
          [] status = "ready" ->
                /\ run' = [Branch(run, "deliver") EXCEPT !.capturing = FALSE]
                /\ cam' = [cam EXCEPT !.exposing = FALSE]
                /\ shot' = [Ended(shot, "finished") EXCEPT !.at = stage]
                /\ req' = [req EXCEPT !.finished = IF req.clean /\ shot.stage = "CAPTURE" THEN @ + 1 ELSE @]
    /\ UNCHANGED <<config, solving, aside, mode, stage, interval_idx, image_count, seq, ui, view, files>>

\* capture_wait failed: self.view.message("no signal"), continue
NoSignal ==
    /\ run.pc = "no_signal"
    /\ view' = message(view, "no signal")
    /\ shot' = [shot EXCEPT !.fate = IF view'.msg = "no signal" THEN "reported" ELSE "silent"]
    /\ run' = [run EXCEPT !.pc = "sleep"]
    /\ UNCHANGED <<config, solving, aside, mode, stage, interval_idx, image_count, seq, ui, cam,
                   files, req>>

\* the frame goes to the view: ephemeral, error-marked, or with its path
Deliver ==
    /\ run.pc = "deliver"
    /\ IF ~Persists(run.capture_stage, output_dir)
       THEN /\ view' = set_data(view, IF run.capture_stage = "LIVE" THEN NoneV ELSE FalseV,
                                shot.id, "")
            /\ shot' = [shot EXCEPT !.shown = TRUE, !.filter = run.capture_slot]
            /\ run' = [run EXCEPT !.pc = "sleep"]
            /\ UNCHANGED <<seq, req, files>>
       ELSE /\ seq' = seq + 1
            /\ files' = [files EXCEPT !.used = @ \cup {seq}]
            /\ view' = set_data(view, seq, shot.id, "")
            /\ shot' = [shot EXCEPT !.shown = TRUE, !.out = seq, !.filter = run.capture_slot]
            /\ run' = [run EXCEPT !.out = seq,
                                  !.pc = IF SinglePauses(run.capture_mode) THEN "set_stage"
                                         ELSE IF run.capture_mode = "INTERVALS" THEN "commit"
                                         ELSE "save_fits"]
            /\ req' = [req EXCEPT !.credit = IF run.capture_mode = "SINGLE" THEN @ - 1 ELSE @]
    /\ UNCHANGED <<config, solving, aside, mode, stage, interval_idx, image_count, ui, cam>>

\* SINGLE: self.set_stage(Stage.PAUSE) on the worker, the lock section
SelfPause ==
    /\ run.pc = "set_stage"
    /\ SetStageLocked("PAUSE")
    /\ run' = [run EXCEPT !.pc = "pause"]
    /\ shot' = [shot EXCEPT !.held = TRUE]
    /\ UNCHANGED <<config, solving, aside, mode, interval_idx, seq, ui, cam, view, files, req>>

\* SINGLE: the end of the worker's set_stage, view.pause(True)
SelfPauseView ==
    /\ run.pc = "pause"
    /\ view' = pause(view, TRUE)
    /\ run' = [run EXCEPT !.pc = "save_fits"]
    /\ UNCHANGED <<config, solving, aside, mode, stage, interval_idx, image_count, seq, ui, cam,
                   files, shot, req>>

\* INTERVALS: with self.lock: self.interval_idx = capture_interval_idx
Commit ==
    /\ run.pc = "commit"
    /\ interval_idx' = run.capture_interval_idx
    /\ shot' = [shot EXCEPT !.committed = TRUE]
    /\ run' = [run EXCEPT !.pc = "save_fits"]
    /\ UNCHANGED <<config, solving, aside, mode, stage, image_count, seq, ui, cam, view, files, req>>

\* AfterFsync that goes on to view.save whatever happened
AlwaysSave(ok) == "view_save"

\* where FitsWriter.run goes after the fsync: on to view.save, or into the
\* except clause and back to the caller
AfterFsync(ok) == IF ok THEN "view_save" ELSE "sleep"

\* FitsWriter.run, except Exception: the failure is logged, nothing else
Caught ==
    /\ files' = [files EXCEPT !.failed = @ \cup {run.out}]
    /\ req' = [req EXCEPT !.clean = FALSE, !.finished = 0, !.written = 0,
                          !.faults = @ + 1]

\* save_fits -> FitsWriter.run on the worker: fits.write and the header
\* keys, which may raise
Write ==
    /\ run.pc = "save_fits"
    /\ \E ok \in BOOLEAN :
        /\ ~ok => MayFail
        /\ IF ok
           THEN /\ files' = [files EXCEPT !.written = @ \cup {run.out}]
                /\ run' = [run EXCEPT !.pc = "fsync"]
                /\ UNCHANGED req
           ELSE /\ Caught
                /\ run' = [run EXCEPT !.pc = "sleep", !.out = 0]
    /\ UNCHANGED <<config, solving, aside, mode, stage, interval_idx, image_count, seq, ui, cam, view, shot>>

\* FitsWriter.run: os.fsync of the file, which may raise
Fsync ==
    /\ run.pc = "fsync"
    /\ \E ok \in BOOLEAN :
        /\ ~ok => MayFail
        /\ run' = [run EXCEPT !.pc = AfterFsync(ok),
                               !.out = IF AfterFsync(ok) = "sleep" THEN 0 ELSE @]
        /\ IF ok
           THEN /\ files' = [files EXCEPT !.synced = @ \cup {run.out}]
                /\ UNCHANGED req
           ELSE Caught
    /\ UNCHANGED <<config, solving, aside, mode, stage, interval_idx, image_count, seq, ui, cam, view, shot>>

\* FitsWriter.run: self.view.save(self.out), and the return to Capture.run
ViewSave ==
    /\ run.pc = "view_save"
    /\ view' = save(view, run.out)
    /\ req' = [req EXCEPT !.written = IF req.clean THEN @ + 1 ELSE @]
    /\ run' = [run EXCEPT !.pc = "sleep", !.out = 0]
    /\ UNCHANGED <<config, solving, aside, mode, stage, interval_idx, image_count, seq, ui, cam, files, shot>>

\* ------------------------------------------------------ the specification
Next ==
    \/ Start
    \/ Update
    \/ PressStart
    \/ PressBack
    \/ CloseMenu
    \/ \E m \in Modes : SelectMode(m)
    \/ Selected
    \/ Cancel
    \/ Direct
    \/ Join
    \/ Initialising
    \/ Pause
    \/ ThreadStart
    \/ Snapshot
    \/ Stop
    \/ Paused
    \/ LiveFallback
    \/ Expose
    \/ Summary
    \/ SummaryMessage
    \/ Count
    \/ Poll
    \/ NoSignal
    \/ Deliver
    \/ SelfPause
    \/ SelfPauseView
    \/ Commit
    \/ Write
    \/ Fsync
    \/ ViewSave

Spec == Init /\ [][Next]_vars

TypeOK ==
    /\ stage \in Stages
    /\ mode \in Modes
    /\ Len(interval_idx) \in {0, 2}
    /\ image_count \in 0..MaxExposures
    /\ shot.id <= MaxExposures
    /\ ui.calls <= MaxCalls
    /\ ui.modes <= MaxModes

\* ------------------------------------------------ the end of the process
\* Capture.thread is created with daemon=True
CaptureDaemon == TRUE

\* the interpreter's shutdown joins the threads that are not daemons
ProcessWaits(daemon) == ~daemon

\* the worker thread has not been started or has ended
NotRunning == run.pc \in {"new", "done", "crashed"}

\* the main loop gets pygame.QUIT: pygame.quit() and sys.exit(), with no
\* call into the capture controller; the interpreter waits for the threads
\* that are not daemons and ends, which ends the daemon threads wherever
\* they are
Quit ==
    /\ ui.pc = "idle"
    /\ ProcessWaits(CaptureDaemon) => NotRunning
    /\ ui' = [ui EXCEPT !.pc = "exited"]
    /\ run' = IF NotRunning THEN run ELSE [run EXCEPT !.pc = "killed"]
    /\ UNCHANGED <<config, solving, aside, mode, stage, interval_idx, image_count, seq, cam, view,
                   files, shot, req>>

\* a session with a drive and a plan of one step of one frame, started in
\* INTERVALS or in SINGLE mode
InitExit ==
    /\ Init
    /\ Len(intervals) = 1
    /\ intervals[1].frames = 1

NextExit ==
    \/ Next
    \/ Quit

SpecExit == InitExit /\ [][NextExit]_vars

\* ------------------------------------------------- the cursor on its own
\* every plan of 1..MaxSteps steps with frame counts 1..MaxFrames
CursorPlans == UNION {[1..n -> PlanSteps] : n \in 1..MaxSteps}

\* a session in INTERVALS mode over any plan, nothing started
InitCursor ==
    /\ intervals \in CursorPlans
    /\ output_dir = TRUE
    /\ exposure = 1
    /\ wheel = TRUE
    /\ wheel_default = 0
    /\ mode = "INTERVALS"
    /\ Constructed

\* one INTERVALS frame from start to commit with nothing in between: the
\* cursor computed from the committed one becomes the committed one
Advance ==
    /\ interval_idx' = NextIdx(intervals, StartCursor(interval_idx, interval_idx))
    /\ UNCHANGED <<config, solving, aside, mode, stage, image_count, seq, run, ui, cam, view, files,
                   shot, req>>

NextCursor == Advance

SpecCursor == InitCursor /\ [][NextCursor]_vars

\* ------------------------------------- polar alignment and plate solving
\* everything the capture controller and its worker own
capture == <<config, mode, stage, interval_idx, image_count, seq, run, ui, cam,
             files, shot, req>>

\* sky positions, whole degrees; 0 is a position, not a missing one
RAs  == {0, 1}
DECs == {1, 2}

\* what wcsinfo reports of a solution
Bounds == [ra_center : RAs, dec_center : {2}, pixscale : {2}, parity : {-1, 1}]

\* how the solve-field process may end
Outcomes == {"timeout", "no_wcs", "nonzero", "solved"}

\* numbers of sources source_extract may find
Sources == {MinSources - 1, MinSources, MinSources + 1}

\* `if x:` of Python for a number or None
Truthy(x) == x # NoHint /\ x # 0

\* the shapes of View.align
IsNone(a)    == a = << >>
IsStarted(a) == a # << >> /\ a[2] = << >>
IsProbed(a)  == a # << >> /\ a[2] # << >>

\* HintsMissing that wants both hints gone
BothMissing(h) == h.ra_center = NoHint /\ h.dec_center = NoHint

\* View.toggle_align: `if hint_ra is None or hint_dec is None`
HintsMissing(h) == h.ra_center = NoHint \/ h.dec_center = NoHint

\* Probe that records the position of every call as the origin
ProbeOverwrites(a, pos) ==
    IF a = << >> THEN <<pos, << >> >>
    ELSE IF a[2] = << >> THEN <<pos, pos>>
    ELSE << >>

\* View.toggle_align: `match self.align`
Probe(a, pos) ==
    IF a = << >> THEN <<pos, << >> >>
    ELSE IF a[2] = << >> THEN <<a[1], pos>>
    ELSE << >>

\* View.toggle_align: the new value of View.align
toggle_align(a, h) ==
    IF HintsMissing(h) THEN << >> ELSE Probe(a, <<h.ra_center, h.dec_center>>)

\* subprocess.run(args, check=True, timeout=5) raises CalledProcessError,
\* which solve_field does not catch
RunRaises(outcome) == outcome = "nonzero"

\* Astrometry.solve_field: what the call passes and what it returns: None,
\* the bounds of the solution, or an exception
solve_field(pos_hint, outcome, b) ==
    [position |-> pos_hint # << >> /\ pos_hint[1] # NoHint /\ pos_hint[2] # NoHint,
     outcome  |-> outcome,
     kind     |-> IF outcome = "timeout" THEN "none"
                  ELSE IF RunRaises(outcome) THEN "raised"
                  ELSE IF outcome = "solved" THEN "bounds"
                  ELSE "none",
     bounds   |-> b]

\* Failed that takes every answer for a solution
NeverFailed(kind) == FALSE

\* plate_solve: `if not bounds`
Failed(kind) == kind = "none"

\* plate_solve: `if not bounds and parity_hint`, the second solve_field
Retries(failed, h) == failed /\ Truthy(h.parity)

\* round((scale_factor * pixel_size / pixscale) * 206.265), pixel_size in
\* micrometres
FocalLength(scale_factor, pixel_size, pixscale) ==
    (scale_factor * pixel_size * 206265 + 500 * pixscale) \div (1000 * pixscale)

\* the hints after a solution
Solved(h, b, scale_factor, pixel_size, with_scale) ==
    [h EXCEPT !.ra_center = b.ra_center, !.dec_center = b.dec_center,
              !.pixscale = b.pixscale, !.parity = b.parity,
              !.scale = IF with_scale THEN scale_factor ELSE @,
              !.focal_length = IF pixel_size # 0
                               THEN FocalLength(scale_factor, pixel_size, b.pixscale)
                               ELSE @]

\* the two calls of solve_field and what plate_solve makes of them
Attempts(h, o1, o2, b, scale_factor, pixel_size, with_scale) ==
    LET first  == solve_field(<<h.ra_center, h.dec_center>>, o1, b)
        retry  == Retries(Failed(first.kind), h)
        second == solve_field(<< >>, o2, b)
        last   == IF retry THEN second ELSE first
        calls  == IF first.kind = "raised" \/ ~retry THEN <<first>> ELSE <<first, second>>
    IN  IF first.kind = "raised" \/ last.kind = "raised"
        THEN [solved |-> "raised", hints |-> h, calls |-> calls]
        ELSE IF Failed(last.kind)
        THEN [solved |-> "False", hints |-> h, calls |-> calls]
        ELSE [solved |-> "True", calls |-> calls,
              hints |-> Solved(h, last.bounds, scale_factor, pixel_size, with_scale)]

\* luddcam_capture.plate_solve: `if len(centroids) > 10`
SolvesWith(n) == n > MinSources

\* luddcam_capture.plate_solve(hints, img_mono, raw_height, pixel_size,
\* polar_align); given: hints is not None, mono: img_mono is not None
plate_solve(given, mono, h, n, o1, o2, b, scale_factor, pixel_size) ==
    IF ~given \/ ~mono
    THEN [solved |-> "False", hints |-> h, calls |-> << >>]
    ELSE IF SolvesWith(n)
    THEN Attempts(h, o1, o2, b, scale_factor, pixel_size, TRUE)
    ELSE [solved |-> "True", hints |-> h, calls |-> << >>]

\* luddcam_images.plate_solve(hints, centroids, width, height, scale_factor,
\* pixel_size, polar_align)
images_plate_solve(given, h, n, o1, o2, b, scale_factor, pixel_size) ==
    IF ~given \/ n < MinSources
    THEN [solved |-> "False", hints |-> h, calls |-> << >>]
    ELSE Attempts(h, o1, o2, b, scale_factor, pixel_size, FALSE)

\* the record of a plate_solve call: for each solve_field call, whether it
\* was given a position and how the process ended
Called(op, n, r) ==
    [op |-> op, was |-> align, sources |-> n, solved |-> r.solved, kept |-> r.hints = hints,
     calls |-> [i \in 1..Len(r.calls) |->
                  [position |-> r.calls[i].position, outcome |-> r.calls[i].outcome,
                   kind |-> r.calls[i].kind]]]

\* Menu.update, is_action with plate solving on: View.toggle_align
ToggleAlign ==
    /\ align' = toggle_align(align, hints)
    /\ LET present == hints.ra_center # NoHint /\ hints.dec_center # NoHint
           pos     == IF present THEN <<hints.ra_center, hints.dec_center>> ELSE << >>
           probes  == IF ~present THEN 0
                      ELSE IF align = << >> THEN 1
                      ELSE IF solve.probes \in {1, 2} THEN solve.probes + 1
                      ELSE 0
       IN  solve' = [NoSolve EXCEPT !.op = "toggle", !.was = align, !.pos = pos,
                                    !.probes = probes,
                                    !.origin = IF probes = 1 THEN pos
                                               ELSE IF probes = 2 THEN solve.origin
                                               ELSE << >>]
    /\ UNCHANGED <<capture, aside, hints, view>>

\* View.render of a frame that plate_solve solves: the hints move to the
\* solution
RenderSolved ==
    /\ view.stale
    /\ view' = [view EXCEPT !.stale = FALSE]
    /\ \E b \in Bounds :
        hints' = plate_solve(TRUE, TRUE, hints, MinSources + 1, "solved", "solved", b, 2, 0).hints
    /\ UNCHANGED <<capture, aside, align, solve>>

\* Capture.run hands a LIVE frame to the view
FrameArrives ==
    /\ ~view.stale
    /\ view' = set_data(view, NoneV, 1, "")
    /\ UNCHANGED <<capture, aside, solving>>

\* View.render of a stale frame: render_frame_for_screen, which calls
\* plate_solve; an exception of the solver leaves render
Render ==
    /\ view.stale
    /\ view.frame # 0
    /\ view' = [view EXCEPT !.stale = FALSE]
    /\ \E given, mono \in BOOLEAN, n \in Sources, o1, o2 \in Outcomes, b \in Bounds,
          pixel_size \in {0, 4} :
        LET r == plate_solve(given, mono, hints, n, o1, o2, b, 2, pixel_size)
        IN  /\ hints' = r.hints
            /\ solve' = Called("render", n, r)
    /\ UNCHANGED <<capture, aside, align>>

\* luddcam_images.plate_solve called with the centroids of a frame
ImagesPlateSolve ==
    /\ view.frame # 0
    /\ \E given \in BOOLEAN, n \in Sources, o1, o2 \in Outcomes, b \in Bounds,
          pixel_size \in {0, 4} :
        LET r == images_plate_solve(given, hints, n, o1, o2, b, 2, pixel_size)
        IN  /\ hints' = r.hints
            /\ solve' = Called("images", n, r)
    /\ UNCHANGED <<capture, aside, align, view>>

\* the hints of the module's main block: a position, a scale and a focal
\* length, no parity
MainHints == [SolverHints EXCEPT !.ra_center = 1, !.dec_center = 1, !.pixscale = 2,
                                 !.focal_length = 595]

\* a view with a frame and no alignment; the hints of a new view or those
\* of the main block; the capture controller constructed and left alone
InitSolve ==
    /\ \E s \in {Setting(<< >>, "SINGLE", TRUE)} :
        /\ output_dir = s.output_dir
        /\ intervals = s.intervals
        /\ exposure = s.exposure
        /\ wheel = s.wheel
        /\ wheel_default = s.wheel_default
        /\ mode = s.mode
    /\ CaptureConstructed
    /\ view = set_data(NoView, NoneV, 1, "")
    /\ align = << >>
    /\ hints \in {SolverHints, MainHints}
    /\ solve = NoSolve
    /\ Quiet

NextSolve ==
    \/ FrameArrives
    \/ Render
    \/ ImagesPlateSolve

SpecSolve == InitSolve /\ [][NextSolve]_vars

\* ------------------------------------------------- toggle_align on its own
\* hints with and without each of ra_center and dec_center
HintStates ==
    [ra_center : RAs \cup {NoHint}, dec_center : DECs \cup {NoHint}, pixscale : {2, NoHint},
     scale : {NoHint}, parity : {1, NoHint}, focal_length : {NoHint}]

\* the values of View.align
AlignStates ==
    {<< >>} \cup {<<<<ra, dec>>, << >> >> : ra \in RAs, dec \in DECs}
            \cup {<<<<ra, 1>>, <<rb, dec>> >> : ra \in RAs, rb \in RAs, dec \in DECs}

\* a view in any alignment state with any hints
InitAlign ==
    /\ \E s \in {Setting(<< >>, "SINGLE", TRUE)} :
        /\ output_dir = s.output_dir
        /\ intervals = s.intervals
        /\ exposure = s.exposure
        /\ wheel = s.wheel
        /\ wheel_default = s.wheel_default
        /\ mode = s.mode
    /\ CaptureConstructed
    /\ view = [set_data(NoView, NoneV, 1, "") EXCEPT !.stale = FALSE]
    /\ align \in AlignStates
    /\ hints \in HintStates
    /\ solve = NoSolve
    /\ Quiet

NextAlign ==
    \/ ToggleAlign
    \/ FrameArrives
    \/ RenderSolved

SpecAlign == InitAlign /\ [][NextAlign]_vars

\* ------------------------------------------------------------- downscale
MaxSide == 4          \* the longest side of an image, pixels

\* the Bayer patterns of debayer_fast and debayer_quality
Patterns == {"RGGB", "BGGR", "GRBG", "GBRG"}

\* camera.bayer: None, a pattern, a pattern the code does not know
Bayers == {"NONE", "RGGB", "XTRANS"}

\* the nearest even, rounding up
RoundsUp(i) == i + (i % 2)

\* the nearest even, rounding down
even_down(i) == i - (i % 2)

\* debayer_fast and debayer_quality raise ValueError
DebayerRaises(h, w, bayer) == h % 2 # 0 \/ w % 2 # 0 \/ bayer \notin Patterns

\* Exceeds with `and` for `or`
ExceedsBoth(width, height, target_width, target_height) ==
    width > target_width /\ height > target_height

\* the condition of pixel_bin and pixel_sample to go one level deeper
Exceeds(width, height, target_width, target_height) ==
    width > target_width \/ height > target_height

\* the length of a side after pixel_bin's trim and 2x2 average
Binned(n) == n \div 2

\* the length of a side after pixel_sample's img[0::2, 0::2]
Sampled(n) == (n + 1) \div 2

\* the guard of downscale
Upscales(c) == c.target_height > c.height \/ c.target_width > c.width

\* the offsets of the zoom crop, and the shape of the slice taken there
Crop(c) ==
    LET startx == even_down(c.width \div 2 - c.target_width \div 2)
        starty == even_down(c.height \div 2 - c.target_height \div 2)
        stop(start, target, n) == IF start + target < n THEN start + target ELSE n
    IN  [w |-> stop(startx, c.target_width, c.width) - startx,
         h |-> stop(starty, c.target_height, c.height) - starty]

\* luddcam_images.downscale samples unless quality is asked for;
\* luddcam_capture.downscale always bins
Reducer(c) == IF c.impl = "capture" \/ c.quality THEN "pixel_bin" ELSE "pixel_sample"

\* luddcam_capture.downscale assigns rgb in its zoom branch only under
\* `if bayer:` and returns it; luddcam_images.downscale stacks the crop
UnboundRgb(c) == c.impl = "capture" /\ c.zoom /\ c.bayer = "NONE"

\* the calls downscale may be given: both copies of it, every shape up to
\* MaxSide, every target from 0 to one more than MaxSide
ScaleCalls ==
    {[NoScale EXCEPT !.pc = "downscale", !.impl = i, !.width = w, !.height = h,
                     !.w = w, !.h = h, !.target_width = tw, !.target_height = th,
                     !.zoom = z, !.bayer = b, !.quality = q] :
        i \in {"capture", "images"}, w \in 1..MaxSide, h \in 1..MaxSide,
        tw \in 0..(MaxSide + 1), th \in 0..(MaxSide + 1), z \in BOOLEAN, b \in Bayers,
        q \in BOOLEAN}

\* downscale up to its call of pixel_bin or pixel_sample; with zoom, to its
\* return
Downscale ==
    /\ scale.pc = "downscale"
    /\ scale' =
        IF Upscales(scale) THEN [scale EXCEPT !.pc = "ValueError"]
        ELSE IF scale.zoom
        THEN LET crop == Crop(scale) IN
             IF scale.bayer # "NONE" /\ DebayerRaises(crop.h, crop.w, scale.bayer)
             THEN [scale EXCEPT !.pc = "ValueError", !.w = crop.w, !.h = crop.h]
             ELSE IF UnboundRgb(scale)
             THEN [scale EXCEPT !.pc = "UnboundLocalError", !.w = crop.w, !.h = crop.h]
             ELSE [scale EXCEPT !.pc = "returned", !.w = crop.w, !.h = crop.h]
        ELSE IF scale.bayer # "NONE"
        THEN IF DebayerRaises(scale.h, scale.w, scale.bayer)
             THEN [scale EXCEPT !.pc = "ValueError"]
             ELSE [scale EXCEPT !.pc = Reducer(scale), !.w = @ \div 2, !.h = @ \div 2]
        ELSE [scale EXCEPT !.pc = Reducer(scale)]
    /\ UNCHANGED <<capture, solving, view, crit, plate, menu, draw, paper, play>>

\* one level of pixel_bin: return the image, or average and recurse; a level
\* that is handed the shape it was given recurses until RecursionError
PixelBin ==
    /\ scale.pc = "pixel_bin"
    /\ scale' =
        IF ~Exceeds(scale.w, scale.h, scale.target_width, scale.target_height)
        THEN [scale EXCEPT !.pc = "returned"]
        ELSE IF Binned(scale.w) = scale.w /\ Binned(scale.h) = scale.h
        THEN [scale EXCEPT !.pc = "RecursionError"]
        ELSE [scale EXCEPT !.w = Binned(@), !.h = Binned(@), !.depth = @ + 1]
    /\ UNCHANGED <<capture, solving, view, crit, plate, menu, draw, paper, play>>

\* one level of pixel_sample, likewise
PixelSample ==
    /\ scale.pc = "pixel_sample"
    /\ scale' =
        IF ~Exceeds(scale.w, scale.h, scale.target_width, scale.target_height)
        THEN [scale EXCEPT !.pc = "returned"]
        ELSE IF Sampled(scale.w) = scale.w /\ Sampled(scale.h) = scale.h
        THEN [scale EXCEPT !.pc = "RecursionError"]
        ELSE [scale EXCEPT !.w = Sampled(@), !.h = Sampled(@), !.depth = @ + 1]
    /\ UNCHANGED <<capture, solving, view, crit, plate, menu, draw, paper, play>>

\* the settings of a session that is constructed and left alone
Parked ==
    /\ \E s \in {Setting(<< >>, "SINGLE", TRUE)} :
        /\ output_dir = s.output_dir
        /\ intervals = s.intervals
        /\ exposure = s.exposure
        /\ wheel = s.wheel
        /\ wheel_default = s.wheel_default
        /\ mode = s.mode
    /\ CaptureConstructed
    /\ ViewConstructed

InitScale ==
    /\ Parked
    /\ scale \in ScaleCalls
    /\ crit = NoCrit
    /\ plate = NoPlate
    /\ menu = NoMenu
    /\ draw = NoDraw
    /\ paper = NoPaper
    /\ play = NoPlay

NextScale ==
    \/ Downscale
    \/ PixelBin
    \/ PixelSample

SpecScale == InitScale /\ [][NextScale]_vars

\* ------------------------------------------------- the locking discipline
\* Every method that takes Capture.lock or View.lock, as the sequence of
\* the steps it makes: taking and releasing a lock, reading or writing a
\* field, and the calls that leave the object.
Acq(l)  == [k |-> "acquire", on |-> l]
Rel(l)  == [k |-> "release", on |-> l]
Fld(f)  == [k |-> "field", on |-> f]
Do(k, what) == [k |-> k, on |-> what]

\* View.set_data, and View.message that calls it
ViewSetData == <<Acq("View"), Fld("out"), Fld("img_raw"), Fld("meta"), Fld("stale"),
                 Rel("View")>>

\* View.pause
ViewPause == <<Acq("View"), Fld("is_paused"), Fld("stale"), Rel("View")>>

\* View.save
ViewSaveBody == <<Acq("View"), Fld("saved"), Fld("stale"), Rel("View")>>

\* View.get_plate
ViewGetPlate == <<Acq("View"), Fld("hints"), Rel("View")>>

\* View.set_plate_solve and View.get_plate_solve
ViewPlateSolve == <<Acq("View"), Fld("plate_solve"), Rel("View")>>

\* View.toggle_align
ViewToggleAlign == <<Acq("View"), Fld("hints"), Fld("align"), Fld("align"), Rel("View")>>

\* View.toggle_zoom and View.disable_zoom
ViewToggleZoom == <<Acq("View"), Fld("stale"), Fld("zoom"), Rel("View")>>

\* View.render: the snapshot, then render_frame_for_screen with downscale,
\* source extraction and solve_field's files and processes
ViewRender ==
    <<Acq("View"), Fld("out"), Fld("img_raw"), Fld("stale"), Fld("meta"), Fld("surface"),
      Fld("zoom"), Fld("is_paused"), Fld("saved"), Fld("plate_solve"), Fld("hints"),
      Fld("align"), Fld("stale"), Rel("View"),
      Do("compute", "downscale"), Do("file", "sources.xyls"), Do("process", "solve-field"),
      Do("process", "wcsinfo"), Do("compute", "blit")>>

\* Capture.set_mode
CaptureSetMode ==
    <<Acq("Capture"), Fld("mode"), Fld("interval_idx"), Fld("image_count"), Rel("Capture")>>
    \o ViewSetData

\* set_stage with thread.join() inside the critical section
SetStageJoinsLocked(stg, dir) ==
    <<Acq("Capture"), Fld("stage"), Fld("image_count")>>
    \o (IF stg = "STOP" THEN <<Do("join", "Capture thread")>> ELSE << >>)
    \o <<Rel("Capture")>>
    \o ViewPause

\* Capture.set_stage
CaptureSetStage(stg, dir) ==
    IF stg = "CAPTURE" /\ ~dir THEN ViewSetData
    ELSE <<Acq("Capture"), Fld("stage"), Fld("image_count"), Rel("Capture")>>
         \o (IF stg = "STOP" THEN <<Do("join", "Capture thread")>> ELSE << >>)
         \o (IF stg \in {"CAPTURE", "LIVE"} THEN ViewSetData ELSE << >>)
         \o ViewPause

\* Capture.get_stage
CaptureGetStage == <<Acq("Capture"), Fld("stage"), Rel("Capture")>>

\* Capture.run: the sleep and the snapshot that open every iteration
RunSnapshot ==
    <<Do("compute", "sleep"), Acq("Capture"), Fld("mode"), Fld("stage"), Fld("interval_idx"),
      Fld("image_count"), Rel("Capture")>>

\* Capture.run: an iteration that stops the camera: stage STOP, which
\* leaves the loop, or an exposure aborted in PAUSE or LIVE
RunStop == RunSnapshot \o <<Do("camera", "capture_stop")>>

\* Capture.run: an iteration that starts an exposure
RunStart ==
    RunSnapshot
    \o <<Do("wheel", "set_slot_and_wait"), Do("camera", "capture_start")>>
    \o ViewSetData
    \o <<Acq("Capture"), Fld("image_count"), Rel("Capture")>>

\* Capture.run: an iteration that waits, with and without "no signal"
RunWait(failed) ==
    RunSnapshot
    \o <<Do("compute", "sleep"), Do("camera", "capture_wait")>>
    \o (IF failed THEN ViewSetData ELSE << >>)

\* FitsWriter.run
FitsWriterRun == <<Do("file", "fits.write"), Do("file", "fsync")>> \o ViewSaveBody

\* Capture.run: an iteration that delivers a frame of the given mode, kept
\* or not
RunDeliver(m, kept) ==
    RunSnapshot
    \o <<Do("compute", "sleep"), Do("camera", "capture_wait"), Do("camera", "capture_finish")>>
    \o ViewGetPlate
    \o <<Do("camera", "get_temp")>>
    \o ViewSetData
    \o (IF ~kept THEN << >>
        ELSE (IF m = "SINGLE" THEN CaptureSetStage("PAUSE", TRUE)
              ELSE IF m = "INTERVALS"
              THEN <<Acq("Capture"), Fld("interval_idx"), Rel("Capture")>>
              ELSE << >>)
             \o FitsWriterRun)

\* a method being run: its name and its steps
Body(name, ops) == [name |-> name, ops |-> ops]

\* what the UI thread may call
UiBodies ==
    {Body("set_stage", CaptureSetStage(stg, dir)) : stg \in Stages, dir \in BOOLEAN}
    \cup {Body("set_mode", CaptureSetMode), Body("get_stage", CaptureGetStage),
          Body("render", ViewRender), Body("toggle_align", ViewToggleAlign),
          Body("toggle_zoom", ViewToggleZoom), Body("set_plate_solve", ViewPlateSolve)}

\* the iterations of the worker
WorkerBodies ==
    {Body("stop", RunStop), Body("abort", RunStop), Body("start", RunStart)}
    \cup {Body("wait", RunWait(f)) : f \in BOOLEAN}
    \cup {Body("deliver", RunDeliver(m, kept)) : m \in Modes, kept \in BOOLEAN}

BodiesOf(t) == IF t = "ui" THEN UiBodies ELSE WorkerBodies

\* the step thread t is about to make
NextOp(t) == crit.at[t].body.ops[crit.at[t].i]

Running(t) == crit.at[t].i <= Len(crit.at[t].body.ops)

Held(t) == {l \in Locks : crit.held[l] = t}

\* a thread enters a method, or the worker its next iteration
Enter(t) ==
    /\ ~Running(t)
    /\ t = "worker" => ~crit.ended
    /\ \E b \in BodiesOf(t) :
        crit' = [crit EXCEPT !.at[t] = [body |-> b, i |-> 1]]
    /\ UNCHANGED <<capture, solving, view, scale, plate, menu, draw, paper, play>>

\* `with self.lock:` is entered: threading.Lock is not reentrant
Acquire(t) ==
    /\ Running(t)
    /\ NextOp(t).k = "acquire"
    /\ crit.held[NextOp(t).on] = "none"
    /\ crit' = [crit EXCEPT !.held[NextOp(t).on] = t, !.at[t].i = @ + 1]
    /\ UNCHANGED <<capture, solving, view, scale, plate, menu, draw, paper, play>>

\* the `with` block is left
Release(t) ==
    /\ Running(t)
    /\ NextOp(t).k = "release"
    /\ crit' = [crit EXCEPT !.held[NextOp(t).on] = "none", !.at[t].i = @ + 1]
    /\ UNCHANGED <<capture, solving, view, scale, plate, menu, draw, paper, play>>

\* thread.join() returns once the worker has left its loop
Joined(t) ==
    /\ Running(t)
    /\ NextOp(t).k = "join"
    /\ crit.ended
    /\ crit' = [crit EXCEPT !.at[t].i = @ + 1]
    /\ UNCHANGED <<capture, solving, view, scale, plate, menu, draw, paper, play>>

\* any other step; the worker's loop ends with the iteration that stops
Step(t) ==
    /\ Running(t)
    /\ NextOp(t).k \notin {"acquire", "release", "join"}
    /\ crit' = [crit EXCEPT !.at[t].i = @ + 1,
                            !.ended = @ \/ (t = "worker" /\ crit.at[t].body.name = "stop"
                                            /\ NextOp(t).k = "camera")]
    /\ UNCHANGED <<capture, solving, view, scale, plate, menu, draw, paper, play>>

InitLock ==
    /\ Parked
    /\ scale = NoScale
    /\ crit = NoCrit
    /\ plate = NoPlate
    /\ menu = NoMenu
    /\ draw = NoDraw
    /\ paper = NoPaper
    /\ play = NoPlay

NextLock ==
    \/ \E t \in Threads : Enter(t)
    \/ \E t \in Threads : Acquire(t)
    \/ \E t \in Threads : Release(t)
    \/ \E t \in Threads : Joined(t)
    \/ \E t \in Threads : Step(t)

SpecLock == InitLock /\ [][NextLock]_vars

\* ------------------------------------- the hints between two threads
MaxSolves == 2        \* successful solves in one behaviour

\* what wcsinfo may report of the solutions of a session
PlateBounds == [ra_center : RAs, dec_center : DECs, pixscale : {2, 4}, parity : {1}]

\* the fields plate_solve assigns after a solution, in its order
HintWrites == <<"ra_center", "dec_center", "pixscale", "parity", "scale", "focal_length">>

\* the fields mk_metadata reads of the plate, in its order
PlateReads == <<"ra_center", "dec_center", "focal_length">>

\* the value plate_solve assigns to field f of the hints h: the bounds b of
\* the solution, the scale factor, and the focal length from the pixscale
\* it has just stored
Assigned(h, f, b, scale_factor, pixel_size) ==
    CASE f = "scale" -> scale_factor
      [] f = "focal_length" ->
            IF pixel_size # 0 THEN FocalLength(scale_factor, pixel_size, h.pixscale)
            ELSE h.focal_length
      [] OTHER -> b[f]

\* plate_solve on the render thread: solve_field returned the bounds b
SolveReturns ==
    /\ plate.writer = 0
    /\ plate.solves < MaxSolves
    /\ \E b \in PlateBounds, pixel_size \in {0, 4} :
        plate' = [plate EXCEPT !.writer = 1, !.b = b, !.pixel_size = pixel_size,
                               !.solves = @ + 1]
    /\ UNCHANGED <<capture, align, hints, solve, view, scale, crit, menu, draw, paper, play>>

\* plate_solve assigns the next field of the hints, without a lock
WriteHint ==
    /\ plate.writer \in 1..Len(HintWrites)
    /\ LET f == HintWrites[plate.writer]
           h == [hints EXCEPT ![f] = Assigned(hints, f, plate.b, 2, plate.pixel_size)]
       IN  /\ hints' = h
           /\ plate' = IF plate.writer = Len(HintWrites)
                       THEN [plate EXCEPT !.writer = 0, !.solved = @ \cup {h}]
                       ELSE [plate EXCEPT !.writer = @ + 1]
    /\ UNCHANGED <<capture, align, solve, view, scale, crit, menu, draw, paper, play>>

\* Capture.run: self.view.get_plate() returns self.hints itself, under the
\* lock; mk_metadata is entered with it
GetPlate ==
    /\ plate.reader = 0
    /\ plate' = [plate EXCEPT !.reader = 1, !.read = SolverHints]
    /\ UNCHANGED <<capture, solving, view, scale, crit, menu, draw, paper, play>>

\* mk_metadata reads the next field of the plate, without a lock
ReadHint ==
    /\ plate.reader \in 1..Len(PlateReads)
    /\ LET f == PlateReads[plate.reader]
       IN  plate' = [plate EXCEPT !.read[f] = hints[f],
                                  !.reader = IF plate.reader = Len(PlateReads) THEN 0 ELSE @ + 1,
                                  !.frames = IF plate.reader = Len(PlateReads) THEN 1 ELSE @]
    /\ UNCHANGED <<capture, solving, view, scale, crit, menu, draw, paper, play>>

InitPlate ==
    /\ Parked
    /\ scale = NoScale
    /\ crit = NoCrit
    /\ plate = NoPlate
    /\ menu = NoMenu
    /\ draw = NoDraw
    /\ paper = NoPaper
    /\ play = NoPlay

NextPlate ==
    \/ SolveReturns
    \/ WriteHint
    \/ GetPlate
    \/ ReadHint

SpecPlate == InitPlate /\ [][NextPlate]_vars

\* ------------------------------------------------------------ Menu.update
MaxEvents == 2        \* events handed to one Menu.update

\* the events of an update: the shutter, BACK, the action button, another
\* button (an arrow), and an event that is no button press (a key release)
Events == {"start", "back", "action", "left", "release"}

\* luddcam_settings.is_button
is_button(e) == e # "release"

\* Swallows that keeps every waking press from being handled
SwallowsAll(e) == TRUE

\* the press that woke the screen is not handled any further:
\* `if not is_start(event): continue`
Swallows(e) == e # "start"

EventLists == UNION {[1..n -> Events] : n \in 0..MaxEvents}

\* Capture.set_stage as Menu.update calls it, from the stage s, the image
\* count c and the view v
AfterSetStage(stg, s, c, v) ==
    IF stg = "CAPTURE" /\ ~output_dir
    THEN [stage |-> s, image_count |-> c, view |-> message(v, "drive not selected")]
    ELSE [stage |-> stg, image_count |-> 0,
          view |-> pause(IF stg \in {"CAPTURE", "LIVE"} THEN message(v, "initialising") ELSE v,
                         stg = "PAUSE")]

\* everything Menu.update leaves alone
beside_menu == <<config, mode, interval_idx, seq, run, ui, cam, files, shot, req, hints, solve,
                 scale, crit, plate, draw, paper, play>>

\* Menu.__init__ with a camera: Capture(...).start() and screensaver = False
MenuInit ==
    /\ menu.pc = "new"
    /\ LET r == AfterSetStage("LIVE", stage, image_count, view)
       IN  /\ stage' = r.stage
           /\ image_count' = r.image_count
           /\ view' = r.view
    /\ menu' = [menu EXCEPT !.pc = "idle", !.capture = TRUE, !.has_screensaver = TRUE]
    /\ UNCHANGED <<beside_menu, align>>

\* `if self.screensaver:` in cancel, of whether __init__ reached the
\* assignment of the attribute: the exception the read leaves with
ReadScreensaver(assigned) == IF assigned THEN "none" ELSE "AttributeError"

\* Menu.__init__ without a camera: self.capture = None, the message, and
\* the return before self.screensaver is assigned
MenuInitNoCamera ==
    /\ menu.pc = "new"
    /\ view' = message(view, "no camera")
    /\ menu' = [menu EXCEPT !.pc = "idle"]
    /\ UNCHANGED <<beside_menu, align, stage, image_count>>

\* Menu.update without a controller: the view is drawn
MenuUpdateNoCamera ==
    /\ menu.pc = "idle"
    /\ ~menu.capture
    /\ view.stale
    /\ view' = [view EXCEPT !.stale = FALSE]
    /\ UNCHANGED <<beside_menu, align, stage, image_count, menu>>

\* Menu.cancel: set_stage(STOP) and self.capture = None with a controller,
\* then `if self.screensaver: backlight_on()`
MenuCancel ==
    /\ menu.pc = "idle"
    /\ LET r == IF menu.capture THEN AfterSetStage("STOP", stage, image_count, view)
                ELSE [stage |-> stage, image_count |-> image_count, view |-> view]
       IN  /\ stage' = r.stage
           /\ image_count' = r.image_count
           /\ view' = r.view
    /\ menu' = [menu EXCEPT !.pc = "cancelled", !.capture = FALSE,
                            !.stopped = menu.capture,
                            !.raised = ReadScreensaver(menu.has_screensaver)]
    /\ UNCHANGED <<beside_menu, align>>

\* Menu.update up to its loop: with the secondary menu open BACK closes it
\* and the events go to the menu; else the stage is read
MenuUpdate ==
    /\ menu.pc = "idle"
    /\ menu.capture
    /\ \E events \in EventLists :
        IF menu.open
        THEN menu' = [menu EXCEPT !.open = \A i \in 1..Len(events) : events[i] # "back"]
        ELSE menu' = [menu EXCEPT !.pc = "events", !.stage = stage, !.events = events]
    /\ UNCHANGED <<beside_menu, align, stage, image_count, view>>

\* the secondary menu, the plate solving switch: select_plate_solve
SelectPlateSolve ==
    /\ menu.pc = "idle"
    /\ menu.open
    /\ view' = set_plate_solve(view, ~view.plate_solve)
    /\ UNCHANGED <<beside_menu, align, stage, image_count, menu>>

\* one event of the loop of Menu.update
HandleEvent ==
    /\ menu.pc = "events"
    /\ menu.events # << >>
    /\ LET e       == Head(menu.events)
           wakes   == menu.screensaver /\ is_button(e)
           skipped == wakes /\ Swallows(e)
           zoomed  == disable_zoom(view)
           request == IF skipped THEN "NONE"
                      ELSE IF e = "start"
                      THEN (IF menu.stage = "CAPTURE" THEN "PAUSE" ELSE "CAPTURE")
                      ELSE IF e = "back" /\ menu.stage = "PAUSE" THEN "LIVE"
                      ELSE "NONE"
           r       == IF request # "NONE"
                      THEN AfterSetStage(request, stage, image_count, zoomed)
                      ELSE [stage |-> stage, image_count |-> image_count,
                            view |-> IF skipped THEN view
                                     ELSE IF e = "back" THEN zoomed
                                     ELSE IF e = "action" /\ ~view.plate_solve
                                     THEN toggle_zoom(view)
                                     ELSE view]
           opens   == ~skipped /\ e = "back" /\ menu.stage = "LIVE"
           blanks  == ~skipped /\ e = "back" /\ menu.stage \notin {"PAUSE", "LIVE"}
       IN  /\ stage' = r.stage
           /\ image_count' = r.image_count
           /\ view' = r.view
           /\ align' = IF ~skipped /\ e = "action" /\ view.plate_solve
                       THEN toggle_align(align, hints)
                       ELSE align
           /\ menu' = [menu EXCEPT
                 !.events = Tail(@),
                 !.screensaver = IF blanks THEN TRUE ELSE IF wakes THEN FALSE ELSE @,
                 !.open = @ \/ opens,
                 !.zoom = IF skipped THEN @
                          ELSE IF e \in {"start", "back"} THEN FALSE
                          ELSE IF e = "action" /\ ~view.plate_solve THEN r.view.zoom
                          ELSE @,
                 !.last = [event |-> e, saver |-> menu.screensaver, stage |-> menu.stage,
                           woke |-> wakes, request |-> request, before |-> stage,
                           after |-> r.stage]]
    /\ UNCHANGED beside_menu

\* the end of Menu.update: the view is drawn unless the screen is blanked
MenuBlit ==
    /\ menu.pc = "events"
    /\ menu.events = << >>
    /\ menu' = [menu EXCEPT !.pc = "idle"]
    /\ view' = IF menu.screensaver THEN view ELSE [view EXCEPT !.stale = FALSE]
    /\ UNCHANGED <<beside_menu, align, stage, image_count>>

\* the worker delivers the frame of a SINGLE capture and pauses:
\* self.set_stage(Stage.PAUSE)
WorkerPauses ==
    /\ menu.pc # "new"
    /\ stage = "CAPTURE"
    /\ mode = "SINGLE"
    /\ LET r == AfterSetStage("PAUSE", stage, image_count, view)
       IN  /\ stage' = r.stage
           /\ image_count' = r.image_count
           /\ view' = r.view
    /\ UNCHANGED <<beside_menu, align, menu>>

\* a SINGLE or a REPEAT session, with and without a drive
InitMenu ==
    /\ \E s \in {Setting(<< >>, m, d) : m \in {"SINGLE", "REPEAT"}, d \in BOOLEAN} :
        /\ output_dir = s.output_dir
        /\ intervals = s.intervals
        /\ exposure = s.exposure
        /\ wheel = s.wheel
        /\ wheel_default = s.wheel_default
        /\ mode = s.mode
    /\ Constructed

NextMenu ==
    \/ MenuInit
    \/ MenuInitNoCamera
    \/ MenuUpdateNoCamera
    \/ MenuCancel
    \/ MenuUpdate
    \/ SelectPlateSolve
    \/ HandleEvent
    \/ MenuBlit
    \/ WorkerPauses

SpecMenu == InitMenu /\ [][NextMenu]_vars

\* ------------------------------------------- a drive that holds images
\* the numbers of the IMG_n files on the drive at construction
Dirs == {{}, {1, 3}}

\* a session as SpecExit starts it, in INTERVALS mode, over a drive that
\* may hold images
InitSeq ==
    /\ \E s \in {Setting(p, "INTERVALS", TRUE) : p \in {q \in Plans : Len(q) = 1 /\ q[1].frames = 1}} :
        /\ output_dir = s.output_dir
        /\ intervals = s.intervals
        /\ exposure = s.exposure
        /\ wheel = s.wheel
        /\ wheel_default = s.wheel_default
        /\ mode = s.mode
    /\ \E dir \in Dirs : CaptureConstructedIn(dir)
    /\ ViewConstructed
    /\ Quiet

SpecSeq == InitSeq /\ [][Next]_vars

\* ------------------------------------------- the view between its callers
MaxShown == 2

\* set_data that does not take the lock
SetDataUnlocked == <<"out", "img_raw", "meta", "stale">>

\* View.set_data, and View.message that calls it, step by step
SetDataSteps == <<"acquire", "out", "img_raw", "meta", "stale", "release">>

\* View.pause
PauseSteps == <<"acquire", "is_paused", "stale", "release">>

\* View.save
SaveSteps == <<"acquire", "saved", "stale", "release">>

\* View.toggle_zoom
ToggleZoomSteps == <<"acquire", "stale", "zoom", "release">>

\* render that clears stale once it has drawn
RenderClearsLast ==
    <<"acquire", "read_out", "read_img_raw", "read_stale", "read_meta", "read_zoom",
      "read_is_paused", "read_saved", "release", "draw", "clear">>

\* View.render: the snapshot, with stale cleared in it, then the drawing
RenderSteps ==
    <<"acquire", "read_out", "read_img_raw", "read_stale", "read_meta", "read_zoom",
      "read_is_paused", "read_saved", "clear", "release", "draw">>

StepsOf(name) ==
    CASE name = "set_data" -> SetDataSteps
      [] name = "pause" -> PauseSteps
      [] name = "save" -> SaveSteps
      [] name = "toggle_zoom" -> ToggleZoomSteps
      [] name = "render" -> RenderSteps
      [] OTHER -> << >>

\* a call of the view and its arguments
Call(name, out, frame, msg, value) ==
    [name |-> name, out |-> out, frame |-> frame, msg |-> msg, value |-> value]

\* what the UI thread calls: render (by blit), toggle_zoom, and pause by
\* set_stage
UiCalls ==
    {Call("render", NoneV, 0, "", FALSE), Call("toggle_zoom", NoneV, 0, "", FALSE)}
    \cup {Call("pause", NoneV, 0, "", value) : value \in BOOLEAN}

\* what the worker calls: set_data for the next frame with None, False or
\* its path, a message, pause by its own set_stage(PAUSE), and save by the
\* writer for the path handed over last
WorkerCalls ==
    {Call("set_data", out, draw.n + 1, "", FALSE) :
        out \in IF draw.n < MaxShown THEN {NoneV, FalseV, draw.n + 1} ELSE {}}
    \cup {Call("set_data", NoneV, 0, "no signal", FALSE), Call("pause", NoneV, 0, "", TRUE)}
    \cup {Call("save", draw.pending, 0, "", FALSE) : x \in IF draw.pending > 0 THEN {0} ELSE {}}

CallsOf(t) == IF t = "ui" THEN UiCalls ELSE WorkerCalls

Busy(t) == draw.at[t].i <= Len(StepsOf(draw.at[t].call.name))

\* the step thread t makes next
NextStep(t) == StepsOf(draw.at[t].call.name)[draw.at[t].i]

\* is_saved = saved == out
is_saved(saved, out) == saved = out

\* what render draws of its snapshot: the text of a message (nothing for
\* None), else render_frame_for_screen of the frame
Shown(v) ==
    IF v.frame = 0 THEN Text(v.msg)
    ELSE [msg |-> "", frame |-> v.frame, meta |-> v.meta, out |-> v.out, zoom |-> v.zoom,
          is_paused |-> v.is_paused, is_saved |-> is_saved(v.saved, v.out)]

\* a thread calls the view
Invoke(t) ==
    /\ ~Busy(t)
    /\ \E c \in CallsOf(t) :
        draw' = [draw EXCEPT !.at[t] = [call |-> c, i |-> 1],
                             !.n = IF c.frame > 0 THEN c.frame ELSE @,
                             !.given = IF c.frame > 0 THEN Append(@, c.out) ELSE @,
                             !.pending = IF c.frame > 0 THEN (IF c.out > FalseV THEN c.out ELSE 0)
                                         ELSE IF c.name = "save" THEN 0 ELSE @]
    /\ UNCHANGED <<capture, solving, view, scale, crit, plate, menu, paper, play>>

\* `with self.lock:` is entered
Lock(t) ==
    /\ Busy(t)
    /\ NextStep(t) = "acquire"
    /\ draw.lock = "none"
    /\ draw' = [draw EXCEPT !.lock = t, !.at[t].i = @ + 1]
    /\ UNCHANGED <<capture, solving, view, scale, crit, plate, menu, paper, play>>

\* the `with` block is left
Unlock(t) ==
    /\ Busy(t)
    /\ NextStep(t) = "release"
    /\ draw' = [draw EXCEPT !.lock = "none", !.at[t].i = @ + 1,
                            !.late = @ \/ (t # "ui" /\ Busy("ui") /\ NextStep("ui") = "draw"
                                           /\ draw.snap.stale)]
    /\ UNCHANGED <<capture, solving, view, scale, crit, plate, menu, paper, play>>

\* an assignment to a field of the view
Assign(t) ==
    /\ Busy(t)
    /\ LET s == NextStep(t)
           c == draw.at[t].call
       IN  /\ s \in {"out", "img_raw", "meta", "stale", "is_paused", "saved", "zoom", "clear"}
           /\ view' = CASE s = "out" -> [view EXCEPT !.out = c.out]
                        [] s = "img_raw" -> [view EXCEPT !.frame = c.frame, !.msg = c.msg]
                        [] s = "meta" -> [view EXCEPT !.meta = c.frame]
                        [] s = "stale" -> [view EXCEPT !.stale = TRUE]
                        [] s = "is_paused" -> [view EXCEPT !.is_paused = c.value]
                        [] s = "saved" -> [view EXCEPT !.saved = c.out]
                        [] s = "zoom" -> [view EXCEPT !.zoom = ~@]
                        [] s = "clear" -> [view EXCEPT !.stale = FALSE]
           /\ draw' = [draw EXCEPT !.at[t].i = @ + 1,
                                   !.saves = IF s = "saved" THEN @ \cup {c.out} ELSE @]
    /\ UNCHANGED <<capture, solving, scale, crit, plate, menu, paper, play>>

\* render copies a field of the view
Read(t) ==
    /\ Busy(t)
    /\ LET s == NextStep(t)
       IN  /\ s \in {"read_out", "read_img_raw", "read_stale", "read_meta", "read_zoom",
                     "read_is_paused", "read_saved"}
           /\ draw' = [draw EXCEPT
                  !.at[t].i = @ + 1,
                  !.snap = CASE s = "read_out" -> [@ EXCEPT !.out = view.out]
                             [] s = "read_img_raw" -> [@ EXCEPT !.frame = view.frame,
                                                                !.msg = view.msg]
                             [] s = "read_stale" -> [@ EXCEPT !.stale = view.stale]
                             [] s = "read_meta" -> [@ EXCEPT !.meta = view.meta]
                             [] s = "read_zoom" -> [@ EXCEPT !.zoom = view.zoom]
                             [] s = "read_is_paused" -> [@ EXCEPT !.is_paused = view.is_paused]
                             [] s = "read_saved" -> [@ EXCEPT !.saved = view.saved]]
    /\ UNCHANGED <<capture, solving, view, scale, crit, plate, menu, paper, play>>

\* `if not stale: return`, else the surface is drawn of the snapshot
Draw(t) ==
    /\ Busy(t)
    /\ NextStep(t) = "draw"
    /\ draw' = [draw EXCEPT !.at[t].i = @ + 1,
                            !.surface = IF draw.snap.stale THEN Shown(draw.snap) ELSE @,
                            !.snap = NoView]
    /\ UNCHANGED <<capture, solving, view, scale, crit, plate, menu, paper, play>>

InitView ==
    /\ Parked
    /\ scale = NoScale
    /\ crit = NoCrit
    /\ plate = NoPlate
    /\ menu = NoMenu
    /\ draw = NoDraw
    /\ paper = NoPaper
    /\ play = NoPlay

NextView ==
    \/ \E t \in Threads : Invoke(t)
    \/ \E t \in Threads : Lock(t)
    \/ \E t \in Threads : Unlock(t)
    \/ \E t \in Threads : Assign(t)
    \/ \E t \in Threads : Read(t)
    \/ \E t \in Threads : Draw(t)

SpecView == InitView /\ [][NextView]_vars

\* ------------------------------------------------------ the e-paper display
MaxTicks == 3         \* the clock stops here; a tick is half a second
MaxSurface == 2       \* the contents a surface may have

\* 1.0 / mocks.warp seconds, in ticks
Throttle == 2

\* sync that never returns early
NeverThrottled(now, last) == FALSE

\* `if time.monotonic() < self.last + 1.0 / mocks.warp: return`
Throttled(now, last) == now < last + Throttle

\* what sync does with the surface s once it is past the throttle
Command(p, s) ==
    IF p.hinted \/ p.buf = 0 THEN "display_Base"
    ELSE IF p.buf # s THEN "display_Partial"
    ELSE "same"

\* time passes
Tick ==
    /\ paper.now < MaxTicks
    /\ paper' = [paper EXCEPT !.now = @ + 1]
    /\ UNCHANGED <<capture, solving, view, scale, crit, plate, menu, draw, play>>

\* Waveshare.sync of a surface
Sync ==
    /\ \E s \in 1..MaxSurface :
        LET cmd == IF Throttled(paper.now, paper.last) THEN "throttled" ELSE Command(paper, s)
            displays == cmd \in {"display_Base", "display_Partial"}
            since == paper.now - paper.shown_at
        IN  paper' = [paper EXCEPT
                !.cmd = cmd,
                !.hinted = IF cmd = "display_Base" THEN FALSE ELSE @,
                !.buf = IF displays THEN s ELSE @,
                !.dark = @ \/ (displays /\ paper.asleep),
                !.shown_at = IF displays THEN paper.now ELSE @,
                !.gap = IF displays /\ since < @ THEN since ELSE @]
    /\ UNCHANGED <<capture, solving, view, scale, crit, plate, menu, draw, play>>

\* Waveshare.hint
Hint ==
    /\ ~paper.hinted
    /\ paper' = [paper EXCEPT !.hinted = TRUE]
    /\ UNCHANGED <<capture, solving, view, scale, crit, plate, menu, draw, play>>

\* Waveshare.sleep: last = float('inf'), epd.Clear(), epd.sleep()
Sleep ==
    /\ paper' = [paper EXCEPT !.last = Forever, !.asleep = TRUE, !.cmd = "none"]
    /\ UNCHANGED <<capture, solving, view, scale, crit, plate, menu, draw, play>>

\* Waveshare.wake: epd.init(), last = -1, buf = None
Wake ==
    /\ paper' = [paper EXCEPT !.last = -2, !.buf = 0, !.asleep = FALSE, !.cmd = "none"]
    /\ UNCHANGED <<capture, solving, view, scale, crit, plate, menu, draw, play>>

InitPaper ==
    /\ Parked
    /\ scale = NoScale
    /\ crit = NoCrit
    /\ plate = NoPlate
    /\ menu = NoMenu
    /\ draw = NoDraw
    /\ paper = NoPaper
    /\ play = NoPlay

NextPaper ==
    \/ Tick
    \/ Sync
    \/ Hint
    \/ Sleep
    \/ Wake

SpecPaper == InitPaper /\ [][NextPaper]_vars

\* ---------------------------------------------------------------- playback
MaxFiles == 3         \* the *.fit* files of the directory
MaxPresses == 2       \* the events of one update

\* the events playback tells apart
Presses == {"left", "right", "action"}

PressLists == UNION {[1..n -> Presses] : n \in 0..MaxPresses}

\* the loop over the events: the direction of the last LEFT or RIGHT
RECURSIVE Direction(_)
Direction(events) ==
    IF events = << >> THEN 0
    ELSE LET e == events[Len(events)]
         IN  IF e = "left" THEN -1
             ELSE IF e = "right" THEN 1
             ELSE Direction(SubSeq(events, 1, Len(events) - 1))

\* the loop over the events: zoom is cleared by LEFT and RIGHT and flipped by
\* ACTION
RECURSIVE Zoomed(_, _)
Zoomed(zoom, events) ==
    IF events = << >> THEN zoom
    ELSE Zoomed(IF Head(events) = "action" THEN ~zoom ELSE FALSE, Tail(events))

\* idx = files.index(self.current) if self.current in files else (count - 1);
\* idx += direction; idx = idx % count; files are numbered from 1, current 0
\* is None
Index(current, count, direction) ==
    LET idx == IF current \in 1..count THEN current - 1 ELSE count - 1
    IN  ((idx + direction) % count) + 1

\* playback Menu over a directory of some files
Open ==
    /\ play = NoPlay
    /\ \E n \in 0..MaxFiles :
        play' = [play EXCEPT !.directory = TRUE, !.count = n]
    /\ UNCHANGED <<capture, solving, view, scale, crit, plate, menu, draw, paper>>

\* playback Menu.update
Playback ==
    /\ play.directory
    /\ \E events \in PressLists :
        LET direction == Direction(events)
            cached    == play.cached /\ events = << >>
            paints    == ~cached /\ play.count > 0
            idx       == Index(play.current, play.count, direction)
        IN  play' = [play EXCEPT
                !.zoom = Zoomed(@, events),
                !.cached = cached \/ paints,
                !.shown = IF paints THEN idx ELSE IF cached THEN @ ELSE 0,
                !.last = IF paints /\ direction # 0
                         THEN [direction |-> direction,
                               presses |-> Cardinality({i \in 1..Len(events) :
                                                            events[i] \in {"left", "right"}}),
                               from |-> play.shown, to |-> idx]
                         ELSE @]
    /\ UNCHANGED <<capture, solving, view, scale, crit, plate, menu, draw, paper>>

InitPlay ==
    /\ Parked
    /\ scale = NoScale
    /\ crit = NoCrit
    /\ plate = NoPlate
    /\ menu = NoMenu
    /\ draw = NoDraw
    /\ paper = NoPaper
    /\ play = NoPlay

NextPlay ==
    \/ Open
    \/ Playback

SpecPlay == InitPlay /\ [][NextPlay]_vars

\* ----------------------------------------------------------- the claims
Exited == run.pc \in {"done", "crashed"}

\* C1: while the UI thread is inside set_stage(STOP), waiting in join for a
\* worker that has not exited, the stage is still STOP: the request is not
\* overwritten before the worker observes it, so the join can end.
C1_StopNotOverwritten ==
    ui.pc = "join" /\ ~Exited => stage = "STOP"

\* C2: once set_stage(STOP) called with an exposure in flight has returned,
\* camera.capture_stop was invoked exactly once between the request and
\* the return.
C2_StopOnce ==
    req.stop_returned /\ req.stop_inflight => req.stops = 1

C4_StopTerminal ==
    ~ui.capture /\ run.pc = "done" => stage = "STOP"

\* C4: the stage is STOP until start() is called; once set_stage(STOP) has
\* returned the worker has exited, and it stays exited through every later
\* set_stage, set_mode and start call; a worker that left through STOP
\* leaves the camera stopped, and no exposure is started after that.
C4_StoppedStaysStopped ==
    /\ run.pc = "new" /\ ui.pc = "idle" /\ ui.calls = 0 /\ ui.modes = 0 => stage = "STOP"
    /\ req.stop_returned => Exited
    /\ ~ui.capture /\ run.pc # "new" => Exited
    /\ run.pc = "done" => ~cam.exposing

\* C4, reached: the controller was stopped, the worker left through STOP,
\* and a later call has set the stage to LIVE
C4_Witness ==
    ~ui.capture /\ ui.pc = "idle" /\ run.pc = "done" /\ stage = "LIVE"

\* C5: for every plan with 1..MaxSteps steps of 1..MaxFrames frames and
\* after any number of advances from the unset cursor, the cursor is
\* (step, sub) with 0 <= step < steps and 0 <= sub < frames of that step;
\* advancing past the last sub of the last step gives (0, 0).
C5_CursorInRange ==
    /\ interval_idx # << >> =>
        /\ interval_idx[1] \in 0..(Len(intervals) - 1)
        /\ interval_idx[2] \in 0..(intervals[interval_idx[1] + 1].frames - 1)
    /\ NextIdx(intervals, <<Len(intervals) - 1, intervals[Len(intervals)].frames - 1>>) = <<0, 0>>

\* C5, reached: a plan of MaxSteps steps whose cursor has wrapped to (0, 0)
C5_Witness ==
    Len(intervals) = MaxSteps /\ intervals[1].frames = MaxFrames /\ interval_idx = <<0, 0>>

\* C6: a one-step plan of n frames, INTERVALS capture requested with the
\* cursor unset, and n exposures completed and written with no pause, mode
\* change or fault in between: n frames are persisted, the committed cursor
\* is (0, 0) and image_count is n before the next exposure is started.
C6_OnePass ==
    (/\ Len(intervals) = 1
     /\ req.clean
     /\ req.finished = intervals[1].frames
     /\ run.pc = "sleep"
     /\ shot.fate = "finished")
    => /\ req.written = intervals[1].frames
       /\ interval_idx = <<0, 0>>
       /\ image_count = intervals[1].frames

\* C7: the committed cursor is only ever set to the cursor of a finished
\* frame that was given a file; and when the INTERVALS exposure started in
\* CAPTURE with the cursor c due after the committed one was aborted or
\* failed, the next INTERVALS exposure started in CAPTURE (without a mode
\* change in between) has cursor c.
C7_CursorHeld ==
    /\ shot.committed => shot.fate = "finished" /\ shot.out # 0 /\ shot.idx # << >>
    /\ shot.owed # << >> => shot.idx = shot.owed

\* C7, reached: an INTERVALS exposure of a plan with several steps, started
\* in CAPTURE after its predecessor was aborted or failed
C7_Witness ==
    shot.owed # << >> /\ shot.fate = "inflight" /\ Len(intervals) > 1

\* C8: after camera.capture_wait reported a failure the worker sends
\* "no signal" to the view, the exposure's frame is neither handed to the
\* view nor given a file, the worker is still in its loop (or has left it
\* through the STOP branch), and its next iteration with stage LIVE or CAPTURE takes
\* the branch that calls camera.capture_start.
C8_FailureRetries ==
    /\ shot.fate # "silent"
    /\ shot.fate = "failed" => run.pc = "no_signal"
    /\ shot.fate \in {"failed", "reported"} =>
        /\ ~shot.shown /\ shot.out = 0 /\ ~shot.committed
        /\ run.pc \in {"no_signal", "sleep", "decide", "done"}
        /\ ~run.capturing
        /\ run.pc = "decide" /\ run.stage \in {"LIVE", "CAPTURE"} /\ shot.id < MaxExposures
             => ENABLED Expose /\ ~ENABLED Poll

\* C8, reached: the failure was reported with "no signal" and the next
\* iteration, with stage CAPTURE, is about to branch
C8_Witness ==
    shot.fate = "reported" /\ run.pc = "decide" /\ run.stage = "CAPTURE"
    /\ view.msg = "no signal"

\* C9: an exposure started under a snapshot of stage LIVE lasts at most
\* LiveCap seconds, whatever the mode and the configured exposure.
C9_LiveCapped ==
    /\ shot.stage = "LIVE" => shot.exposure <= LiveCap
    /\ run.capturing /\ run.capture_stage = "LIVE" => run.capture_exposure <= LiveCap

\* C9, reached: a LIVE exposure in INTERVALS mode whose step asks for more
\* than LiveCap seconds
C9_Witness ==
    /\ shot.stage = "LIVE" /\ shot.mode = "INTERVALS" /\ shot.exposure = LiveCap
    /\ intervals[shot.idx[1] + 1].exposure > LiveCap

\* C10 as stated: the frame of an exposure started in CAPTURE that
\* completes while the stage wanted is LIVE is not handed to the view.
C10_LiveAtCompletionDropsFrame ==
    shot.stage = "CAPTURE" /\ shot.at = "LIVE" => ~shot.shown

\* C10: an exposure started in CAPTURE that is in flight when the worker's
\* snapshot shows LIVE is aborted in that iteration with
\* camera.capture_stop, its frame is never handed to the view and never
\* given a file, and the worker is then free to start a LIVE exposure.
C10_LiveSeenAborts ==
    /\ shot.seen = "live" =>
        /\ shot.stage = "CAPTURE"
        /\ shot.fate \in {"inflight", "abort_live"}
        /\ shot.fate = "inflight" => run.pc = "decide" /\ run.stage = "LIVE"
        /\ ~shot.shown /\ shot.out = 0 /\ ~shot.committed
    /\ shot.fate = "abort_live" => shot.seen = "live" /\ ~cam.exposing /\ ~run.capturing

\* C10, reached: the worker saw LIVE under an exposure started in CAPTURE and
\* aborted it
C10_Witness ==
    shot.fate = "abort_live" /\ run.pc = "sleep" /\ stage = "LIVE"

\* C11: from the worker's own set_stage(PAUSE) after a frame started in
\* CAPTURE with mode SINGLE was given a file, and until the UI thread calls
\* set_stage, the stage is PAUSE, no exposure is in flight and the worker's
\* snapshot shows PAUSE, so that it starts no exposure; and every frame
\* given a file in SINGLE mode has used up one accepted set_stage(CAPTURE)
\* call of its own.
C11_SinglePauses ==
    /\ shot.held =>
        /\ stage = "PAUSE"
        /\ shot.stage = "CAPTURE" /\ shot.mode = "SINGLE" /\ shot.out # 0
        /\ ~cam.exposing /\ ~run.capturing
        /\ run.pc \in {"pause", "save_fits", "fsync", "view_save", "sleep", "decide"}
        /\ run.pc = "decide" => run.stage = "PAUSE"
    /\ run.pc \in {"set_stage", "pause"} => run.capture_mode = "SINGLE"
    /\ req.credit >= 0

\* C11, reached: the SINGLE frame is on disk, the worker has paused itself
\* and looks at the stage again, and the one set_stage(CAPTURE) is used up
C11_Witness ==
    /\ shot.held /\ shot.out \in files.synced /\ run.pc = "decide"
    /\ req.credit = 0

\* C12: the step that hands over the frame of an exposure started in LIVE
\* sets view.out to None and changes neither the sequence number, the
\* files, the stage nor the interval cursor, and the worker goes straight
\* to its next iteration; such a frame is never given a file and never
\* commits a cursor, whatever the stage is when the exposure completes.
C12_LiveEphemeral ==
    /\ [](shot.stage = "LIVE" =>
            /\ shot.out = 0 /\ ~shot.committed /\ ~shot.held
            /\ run.pc \notin {"set_stage", "pause", "commit", "save_fits", "fsync", "view_save"}
            /\ shot.shown => run.out = 0)
    /\ [][run.pc = "deliver" /\ run.capture_stage = "LIVE" /\ run'.pc # "deliver" =>
            /\ view'.out = NoneV /\ view'.frame = shot.id
            /\ seq' = seq /\ files' = files
            /\ stage' = stage /\ interval_idx' = interval_idx
            /\ run'.pc = "sleep"]_vars

\* C12, reached: the frame of an exposure started in LIVE that completed
\* with the stage CAPTURE is in the view, with no path
C12_Witness ==
    /\ shot.stage = "LIVE" /\ shot.at = "CAPTURE" /\ shot.shown
    /\ view.out = NoneV /\ view.frame = shot.id /\ output_dir

\* C13: view.saved names only files that were written in full and fsynced;
\* view.save is reached only with such a file; a file whose write or fsync
\* raised is never the one view.saved names; and the step in which the
\* write or the fsync raises leaves the view alone and returns the worker
\* to the top of its loop.
C13_SavedAfterSync ==
    /\ [](/\ view.saved # FalseV => view.saved \in files.written \cap files.synced
          /\ run.pc = "view_save" => run.out \in files.written \cap files.synced
          /\ run.pc = "fsync" => run.out \in files.written \ files.synced
          /\ view.saved \notin files.failed
          /\ files.failed \cap files.synced = {})
    /\ [][files'.failed # files.failed =>
            /\ run.pc \in {"save_fits", "fsync"}
            /\ files'.failed = files.failed \cup {run.out}
            /\ view' = view
            /\ run'.pc = "sleep"]_vars

\* C13, reached: the fsync of the frame the view shows raised, the view has
\* no saved marker for it, and the worker is in its next iteration
C13_Witness ==
    /\ view.out \in files.failed /\ view.out \in files.written
    /\ view.saved # view.out
    /\ run.pc = "decide" /\ run.stage = "CAPTURE"

\* C14: the process never ends while a frame write that has started has
\* neither been fsynced nor reported its failure.
C14_WriteOutlivesNothing ==
    ui.pc = "exited" =>
        ~(run.pc = "killed" /\ run.out \in files.written \ (files.synced \cup files.failed))

\* C15: a toggle_align call that finds both hints turns no alignment into
\* Started(pos), Started(start) into Probed(start, pos) and Probed into no
\* alignment; counted from no alignment, the first such call gives
\* Started with the position it read as the origin, the second gives
\* Probed with the same origin and the position it read, and the third
\* gives no alignment.
C15_AlignCycle ==
    /\ solve.op = "toggle" /\ solve.pos # << >> =>
        /\ IsNone(solve.was) => align = <<solve.pos, << >> >>
        /\ IsStarted(solve.was) => align = <<solve.was[1], solve.pos>>
        /\ IsProbed(solve.was) => align = << >>
    /\ solve.probes = 1 => IsStarted(align) /\ align[1] = solve.origin
    /\ solve.probes = 2 => IsProbed(align) /\ align = <<solve.origin, solve.pos>>
    /\ solve.probes = 3 => IsNone(align)

\* C15, reached: the third call in a row has returned to no alignment, from
\* a Probed state whose origin is not the position of the second call
C15_Witness ==
    /\ solve.probes = 3 /\ align = << >>
    /\ IsProbed(solve.was) /\ solve.was[1] # solve.was[2]

\* C16: a toggle_align call that finds the RA hint or the DEC hint missing
\* leaves no alignment, whatever the alignment was.
C16_MissingHintResets ==
    solve.op = "toggle" /\ solve.pos = << >> => align = << >>

\* C16, reached: a call with the RA hint present and the DEC hint missing
\* has reset a Probed alignment
C16_Witness ==
    /\ solve.op = "toggle" /\ IsProbed(solve.was) /\ align = << >>
    /\ hints.ra_center # NoHint /\ hints.dec_center = NoHint

\* the solve-field process ended without a solution and without an error
NoSolution(call) == call.outcome \in {"timeout", "no_wcs"}

\* C17: when every solve_field call of a plate_solve call timed out or
\* ended without a solution, plate_solve returns not solved and every field
\* of the hints is as it was before the call.
C17_FailureKeepsHints ==
    (/\ solve.op \in {"render", "images"}
     /\ solve.calls # << >>
     /\ \A i \in 1..Len(solve.calls) : NoSolution(solve.calls[i]))
    => solve.solved = "False" /\ solve.kept

\* C17, reached: a render whose first solve timed out and whose retry
\* found no solution, with hints from an earlier solution
C17_Witness ==
    /\ solve.op = "render" /\ Len(solve.calls) = 2
    /\ solve.calls[1].outcome = "timeout" /\ solve.calls[2].outcome = "no_wcs"
    /\ solve.solved = "False" /\ solve.kept
    /\ hints.parity # NoHint /\ hints.scale # NoHint

\* C18: a plate_solve call on fewer than MinSources sources returns not
\* solved, makes no solve_field call and leaves the hints as they were.
C18_FewSourcesNotSolved ==
    solve.op \in {"render", "images"} /\ solve.sources < MinSources =>
        solve.solved = "False" /\ solve.calls = << >> /\ solve.kept

\* C19: a plate_solve call makes at most two solve_field calls; it makes
\* the second exactly when the first ended without a solution and was given
\* a position, and the second is given no position.
C19_RetryOnPosition ==
    solve.calls # << >> =>
        /\ Len(solve.calls) <= 2
        /\ Len(solve.calls) = 2 <=> NoSolution(solve.calls[1]) /\ solve.calls[1].position
        /\ Len(solve.calls) = 2 => ~solve.calls[2].position

\* C20: a solve_field call whose process timed out, ended without a
\* solution file or ended with a non-zero status returns None, and the
\* plate_solve call that made it returns.
C20_NoSolutionReturnsNone ==
    /\ \A i \in 1..Len(solve.calls) :
          solve.calls[i].outcome \in {"timeout", "no_wcs", "nonzero"} =>
              solve.calls[i].kind = "none"
    /\ solve.solved # "raised"
\* the image fits the target
Fits(c) == c.w <= c.target_width /\ c.h <= c.target_height

\* a source debayer_fast takes: not a Bayer one, or one of a known pattern
\* with an even width and an even height
Debayers(c) == c.bayer = "NONE" \/ ~DebayerRaises(c.height, c.width, c.bayer)

\* C21 (as claimed): whenever the target is no larger than the source, non-zoom
\* downscale terminates and returns a buffer no wider and no taller than
\* the target; whenever the target is larger in either dimension it raises.
C21_DownscaleFits ==
    (scale.pc # "none" /\ ~scale.zoom) =>
        /\ ~Upscales(scale) =>
            /\ scale.pc \notin {"ValueError", "RecursionError"}
            /\ scale.pc = "returned" => Fits(scale)
        /\ Upscales(scale) => scale.pc \in {"downscale", "ValueError"}

\* C21 (amended): the same for targets of at least 1x1 and sources that are
\* not Bayer sources or have a known pattern and even sides; a Bayer source
\* with an odd side or an unknown pattern raises, as does an upscale.
C21_EvenDownscaleFits ==
    (scale.pc # "none" /\ ~scale.zoom) =>
        /\ (~Upscales(scale) /\ Debayers(scale)
                /\ scale.target_width >= 1 /\ scale.target_height >= 1) =>
            /\ scale.pc \notin {"ValueError", "RecursionError"}
            /\ scale.pc = "returned" => Fits(scale)
        /\ (Upscales(scale) \/ ~Debayers(scale)) => scale.pc \in {"downscale", "ValueError"}

\* C21 witness: a Bayer frame with even sides was halved by debayer_fast
\* and then at least once more, and returned within the target
C21_Witness ==
    /\ scale.pc = "returned"
    /\ ~scale.zoom
    /\ scale.bayer \in Patterns
    /\ scale.depth >= 1
    /\ scale.target_width >= 1
    /\ Fits(scale)

\* C22: a thread that holds Capture.lock or View.lock only reads or writes
\* fields until it releases the lock: it makes no camera, wheel, file,
\* process or join call and takes no other lock; no thread holds both
\* locks, and no two threads wait for a lock the other holds.
C22_ShortSections ==
    /\ \A t \in Threads :
        /\ Held(t) # {} => Running(t) /\ NextOp(t).k \in {"field", "release"}
        /\ Cardinality(Held(t)) <= 1
        /\ (Running(t) /\ NextOp(t).k = "acquire") => crit.held[NextOp(t).on] # t
    /\ ~\E t \in Threads, u \in Threads :
        /\ t # u
        /\ Running(t) /\ NextOp(t).k = "acquire" /\ crit.held[NextOp(t).on] = u
        /\ Running(u) /\ NextOp(u).k = "acquire" /\ crit.held[NextOp(u).on] = t

\* C22 witness: the UI thread waits for Capture.lock in set_stage while the
\* worker holds it to publish the cursor of a delivered frame
C22_Witness ==
    /\ crit.at["ui"].body.name = "set_stage"
    /\ Running("ui")
    /\ NextOp("ui").k = "acquire"
    /\ crit.held[NextOp("ui").on] = "worker"
    /\ crit.at["worker"].body.name = "deliver"
    /\ NextOp("worker") = Fld("interval_idx")

\* mk_metadata: the RA, DEC and FOCALLEN entries made of the plate h; a
\* field that is None or 0 makes no entry
PlateEntries(h) ==
    [i \in 1..Len(PlateReads) |->
        IF Truthy(h[PlateReads[i]]) THEN h[PlateReads[i]] ELSE NoHint]

\* C23: the RA, DEC and FOCALLEN entries of a frame's metadata are those
\* mk_metadata makes of the hints as one solve left them (or as they were
\* constructed): no frame mixes the fields of two states of the hints.
C23_ConsistentPlate ==
    (plate.frames > 0 /\ plate.reader = 0) =>
        \E h \in plate.solved : PlateEntries(plate.read) = PlateEntries(h)

\* C24: an event handled while the screen was blanked, in an update that
\* read the stage CAPTURE: the shutter wakes the screen and calls
\* set_stage(PAUSE), which leaves the stage at PAUSE; any other button
\* wakes the screen, calls set_stage with nothing and leaves the stage.
C24_StartWakesAndPauses ==
    LET l == menu.last
    IN  (l.saver /\ l.stage = "CAPTURE") =>
            /\ l.event = "start" => l.woke /\ l.request = "PAUSE" /\ l.after = "PAUSE"
            /\ (is_button(l.event) /\ l.event # "start") =>
                   l.woke /\ l.request = "NONE" /\ l.after = l.before

\* C24 witness: the shutter was pressed with the screen blanked during
\* CAPTURE; the screen is awake and the stage is PAUSE
C24_Witness ==
    /\ menu.last.event = "start"
    /\ menu.last.saver
    /\ menu.last.stage = "CAPTURE"
    /\ menu.last.before = "CAPTURE"
    /\ ~menu.screensaver
    /\ stage = "PAUSE"

\* C25: the number a persisted frame is given is new, greater than the
\* number of every frame persisted before it in the session and greater
\* than the number of every IMG_n the drive held at construction; no file
\* is written over one the drive held.
C25_FreshSeq ==
    /\ [](files.written \cap files.found = {})
    /\ [][files'.used # files.used =>
            \E n \in files'.used :
                /\ files'.used = files.used \cup {n}
                /\ shot'.out = n
                /\ \A k \in files.used \cup files.found : k < n]_vars

\* C25 witness: two frames were written to a drive that held IMG_1 and
\* IMG_3
C25_Witness ==
    /\ files.found = {1, 3}
    /\ files.written = {4, 5}
    /\ files.used = {4, 5}

\* C26: the exposures of a plan, by their cursors (step, sub): the first
\* exposure of a fresh session is the first frame of the first step; an
\* exposure that follows one of the same step is its next frame; the step
\* changes only after the last of its frame_count frames, to the first
\* frame of the next step (of the first step after the last).
C26_FullSteps ==
    [][interval_idx' # interval_idx =>
        IF interval_idx = << >>
        THEN interval_idx' = <<0, 0>>
        ELSE LET index  == interval_idx[1]
                 sub    == interval_idx[2]
                 frames == intervals[index + 1].frames
             IN  IF sub + 1 < frames
                 THEN interval_idx' = <<index, sub + 1>>
                 ELSE interval_idx' = <<(index + 1) % Len(intervals), 0>>]_vars

\* the slot of the plan or of the settings for an exposure of mode m with
\* the cursor idx
SlotOf(m, idx) == IF m = "INTERVALS" THEN intervals[idx[1] + 1].slot ELSE wheel_default

\* C27: with a filter wheel, the wheel is at the slot of the exposure when
\* capture_start is called: the slot of the interval step in INTERVALS mode,
\* the default slot otherwise; the FILTER of the frame's metadata is that
\* slot.
C27_WheelBeforeStart ==
    (wheel /\ shot.id > 0) =>
        /\ shot.slot = SlotOf(shot.mode, shot.idx)
        /\ shot.wheel_at = shot.slot
        /\ shot.shown => shot.filter = shot.slot

\* C27 witness: the frame of the second step of a plan, taken after the
\* wheel moved from slot 0 to slot 1, is shown with FILTER slot 1
C27_Witness ==
    /\ wheel
    /\ shot.mode = "INTERVALS"
    /\ shot.id = 2
    /\ shot.idx = <<1, 0>>
    /\ shot.wheel_at = 1
    /\ shot.shown
    /\ shot.filter = 1

\* no render is between its snapshot and its drawing and no update is
\* inside its lock section
Settled == draw.lock = "none" /\ ~(Busy("ui") /\ draw.at["ui"].call.name = "render")

\* C28: no update of the view is lost by lazy rendering: once render has
\* returned and no update is under way, either stale is true, so the next
\* render draws again, or the surface shows the view as the updates left it.
C28_NoLostUpdate == (Settled /\ ~view.stale) => draw.surface = Shown(view)

\* C28 witness: an update completed between the snapshot of a render and
\* its drawing, and a later render has drawn the second frame, zoomed
C28_Witness ==
    /\ draw.late
    /\ Settled
    /\ ~view.stale
    /\ draw.surface.frame = 2
    /\ draw.surface.zoom
    /\ draw.surface = Shown(view)

\* C29: the path, the frame and the metadata that render draws come from
\* one set_data call.
C29_OneSetData ==
    draw.surface.frame # 0 =>
        /\ draw.surface.meta = draw.surface.frame
        /\ draw.surface.out = draw.given[draw.surface.frame]

\* C29 witness: the second frame is drawn with its own path after the
\* first was handed over with another
C29_Witness ==
    /\ draw.surface.frame = 2
    /\ draw.surface.out = 2
    /\ draw.given = <<1, 2>>
    /\ draw.late

SetStageInProgress ==
    \/ ui.pc \in {"join", "initialising", "pause"}
    \/ run.pc \in {"set_stage", "pause"}

\* C31: whenever no set_stage call is in progress, the view's is_paused is
\* true exactly when the stage is PAUSE.
C31_PausedIffPause == ~SetStageInProgress => (view.is_paused <=> stage = "PAUSE")

\* C32: set_stage(CAPTURE) without an output directory shows "drive not
\* selected" and leaves stage and image_count as they were; the stage is
\* never CAPTURE without an output directory and no exposure is started in
\* CAPTURE without one.
C32_NoCaptureWithoutDrive ==
    /\ [](~output_dir => (stage # "CAPTURE" /\ run.stage # "CAPTURE" /\ shot.stage # "CAPTURE"))
    /\ [][(~output_dir /\ ui'.calls # ui.calls /\ ui'.pc = ui.pc)
            => (/\ view'.msg = "drive not selected"
                /\ stage' = stage
                /\ image_count' = image_count)]_vars

\* C32 witness: without an output directory set_stage(CAPTURE) was refused
\* while a LIVE exposure was counted
C32_Witness ==
    /\ ~output_dir
    /\ view.msg = "drive not selected"
    /\ stage = "LIVE"
    /\ image_count > 0

\* C33: handled by Menu.update, a START press requests PAUSE when the
\* stage is CAPTURE and CAPTURE otherwise, and LIVE is requested only when
\* the stage is PAUSE: the UI never takes the stage from CAPTURE to LIVE.
C33_StageRequests ==
    /\ (menu.last.event = "start" /\ menu.last.request # "NONE") =>
           menu.last.request = IF menu.last.before = "CAPTURE" THEN "PAUSE" ELSE "CAPTURE"
    /\ menu.last.request = "LIVE" => menu.last.before = "PAUSE"

\* C34: Menu.cancel completes without an exception in every state of the
\* Menu: with a controller it is stopped (the stage is STOP and
\* self.capture is None), without a camera the controller's state is not
\* touched.
C34_CancelCompletes ==
    menu.pc = "cancelled" =>
        /\ menu.raised = "none"
        /\ ~menu.capture
        /\ menu.stopped => stage = "STOP"

\* C35: the mode is INTERVALS only with a plan that is not empty, at
\* construction, after every selection and for every exposure, so the
\* worker never indexes an empty plan.
C35_IntervalsHasPlan ==
    intervals = << >> =>
        /\ mode # "INTERVALS"
        /\ run.mode # "INTERVALS"
        /\ shot.mode # "INTERVALS"

\* C35 witness: a session without a plan has taken an exposure and its
\* secondary menu has changed the mode
C35_Witness ==
    /\ intervals = << >>
    /\ shot.id > 0
    /\ ui.modes > 0
    /\ mode = "REPEAT"

\* C36: luddcam_capture.downscale with zoom returns a buffer of exactly the
\* target width and height, for a mono frame as for a Bayer frame, for
\* every source at least as large as the target.
C36_ZoomReturnsTarget ==
    (scale.impl = "capture" /\ scale.zoom /\ scale.pc \notin {"none", "downscale"}
        /\ ~Upscales(scale) /\ scale.bayer \in Patterns \cup {"NONE"}) =>
        /\ scale.pc = "returned"
        /\ scale.w = scale.target_width
        /\ scale.h = scale.target_height

\* C37: between sleep and the next wake, sync issues no display command,
\* whatever the surface and however often it is called.
C37_DarkWhileAsleep == ~paper.dark

\* C37 witness: the display sleeps, a refresh is hinted, time has passed
\* and sync was called and returned early
C37_Witness ==
    /\ paper.asleep
    /\ paper.hinted
    /\ paper.cmd = "throttled"
    /\ paper.now >= Throttle
    /\ paper.shown_at >= 0

\* C38: two display commands issued by sync are never less than one second
\* (divided by the warp) apart.
C38_ThrottledDisplays == paper.gap >= Throttle

\* C39: with a fixed set of files, a RIGHT press shows the image one
\* position after the one displayed and a LEFT press the one before it,
\* modulo the number of files.
C39_StepsFromDisplayed ==
    (play.last.presses = 1 /\ play.last.from # 0) =>
        play.last.to = ((play.last.from - 1 + play.last.direction) % play.count) + 1

\* the origin of the zoom crop along a side of length n for the target
CropOrigin(n, target) == even_down(n \div 2 - target \div 2)

\* C40: for a target no longer than the source and longer than 0, along
\* either side, the origin of the zoom crop is even, not negative and leaves
\* room for the target, so the crop downscale takes has the target's shape.
C40_CropInside ==
    (scale.zoom /\ scale.pc \notin {"none", "downscale"} /\ ~Upscales(scale)
        /\ scale.target_width > 0 /\ scale.target_height > 0) =>
        /\ \A side \in {<<scale.width, scale.target_width>>,
                        <<scale.height, scale.target_height>>} :
            LET origin == CropOrigin(side[1], side[2])
            IN  /\ origin % 2 = 0
                /\ origin >= 0
                /\ origin + side[2] <= side[1]
        /\ scale.w = scale.target_width
        /\ scale.h = scale.target_height

\* C40 witness: a 4x4 frame cropped to 3x1, where the halves differ by an
\* odd number along the width
C40_Witness ==
    /\ scale.zoom
    /\ scale.pc \notin {"none", "downscale"}
    /\ scale.width = 4 /\ scale.height = 4
    /\ scale.target_width = 3 /\ scale.target_height = 1
    /\ scale.w = 3 /\ scale.h = 1
    /\ CropOrigin(4, 3) = 0 /\ CropOrigin(4, 1) = 2

====
